---- MODULE Spec2Model ----
(***************************************************************************)
(* Location resolution, search session and viewport reconciliation of the  *)
(* map-centric CRM.  Strings are sequences of one-character strings, so    *)
(* that toLowerCase, trim and includes are computed, not assumed.          *)
(*                                                                         *)
(* The module holds several specifications, each over its own variables    *)
(* (the search session also uses the resolver's geocodeCache):             *)
(*   SpecGeo    the cached resolver getGeocodedLocation and /api/geocode   *)
(*   SpecCity   the map's geocodeCity chain (direct call, route fallback)  *)
(*   SpecFly    the map's geocodeAndFlyToCity with its lastGeocodedCity    *)
(*   SpecSearch the command-K search session (proximity version)           *)
(*   SpecPage   the home page: contacts, visible contacts, ordering        *)
(*   SpecFlat   the command-K search session (flat cursor, search mode)    *)
(*   SpecNav    the command-K search session (fuzzy matching, 3 sections)  *)
(*   SpecOrder  the orderings of the contact list, as functions            *)
(*   SpecSelect the selection handlers of the home page                    *)
(*   SpecFuzzy  fuzzyMatch, as a function                                  *)
(*   SpecNear   findNearbyCities, as a function                            *)
(*   SpecImport the CSV import: parseCSV and the uploader                   *)
(*   SpecTypes  the place types of a geocoding request                      *)
(*   SpecList   the in-view marks of the contact list                       *)
(*   SpecDist   calculateDistance, as a function                            *)
(*   SpecSearchLive SpecSearch with timers and responses that do happen     *)
(*   SpecUpload the upload route and the address geocoder                   *)
(*   SpecCaps   the caps of the three search evaluations                    *)
(*   SpecMarkers the place marker and the contact markers of the map        *)
(***************************************************************************)
EXTENDS Integers, Sequences, FiniteSets, TLC

VARIABLES
  \* ---- SpecGeo: utils/geo getGeocodedLocation
  geocodeCache,   \* geocodeCache object: key -> GeocodedLocation or Null
  calls,          \* the invocations of getGeocodedLocation
  served,         \* history: lower-cased name -> how its latest completed resolution ended
  \* ---- SpecCity: MapboxMap geocodeCity
  cityCalls,      \* the invocations of geocodeCity
  isGeocoding,    \* MapboxMap state isGeocoding
  \* ---- SpecFly: the earlier MapboxMap, geocodeAndFlyToCity guarded by lastGeocodedCity
  flySelectedCity,   \* prop selectedCity
  initTimer,         \* the 100 ms timer of the map-initialising effect is pending
  mapCurrent,        \* map.current is set
  loadPending,       \* a created map has not fired 'load' yet: the selectedCity its handler captured
  lastGeocodedCity,  \* lastGeocodedCity.current
  flyCalls,          \* the invocations of geocodeAndFlyToCity that issued a request
  flyGeocoding,      \* state isGeocoding
  nameEnded,         \* history: how the latest geocoding attempt of each name ended
  lastInvocation,    \* history: the latest invocation of geocodeAndFlyToCity
  \* ---- SpecSearch: CommandKSearch (proximity version); it shares geocodeCache
  isOpen,            \* state isOpen
  searchTerm,        \* state searchTerm
  results,           \* state results
  selectedIndex,     \* state selectedIndex
  activeSection,     \* state activeSection
  isLoading,         \* state isLoading
  cityLocations,     \* state cityLocations: a Map, kept as its entries in insertion order
  timeoutId,         \* the debounce timer: ticks left before performSearch runs, or NoTimer
  evals,             \* the performSearch invocations awaiting getGeocodedLocation
  startupRuns,       \* the geocodeCities runs awaiting their batch
  sinceKey,          \* history: ticks since the last change of the input text (saturating)
  quick,             \* history: the last change came less than the debounce interval after the one before
  evalsSinceKey,     \* history: performSearch runs started since the last change (saturating)
  \* ---- SpecPage: HomePage (the version with getOrderedContacts) and its map's callbacks
  contacts,          \* state contacts
  loading,           \* state loading
  error,             \* state error: is an error message set
  selectedCity,      \* state selectedCity
  visibleContacts,   \* state visibleContacts
  fetches,           \* the fetchContacts invocations awaiting a response or a retry timer
  mapTimer,          \* the map's pending initializeMap timer: the contacts its render had
  mapLive,           \* the map created last: the contacts its handlers captured, and is it loaded
  \* ---- SpecFlat: CommandKSearch (the version with one flat cursor and a search mode)
  flatOpen,          \* state isOpen
  flatTerm,          \* state searchTerm
  flatResults,       \* state results
  selectedItemIndex, \* state selectedItemIndex
  totalItems,        \* state totalItems
  searchMode,        \* state searchMode
  flatSelected,      \* history: the selection callback invoked last, and whether its argument was on display
  \* ---- SpecNav: CommandKSearch (the version with fuzzy matching and three sections)
  navOpen,           \* state isOpen
  navTerm,           \* state searchTerm
  navResults,        \* state results
  navIndex,          \* state selectedIndex
  navSection,        \* state activeSection
  navSelected,       \* history: the selection callback invoked last
  navArrowed,        \* history: an arrow key was pressed since the results were set last
  \* ---- SpecOrder: the two orderings of the contact list of HomePage
  orderContacts,     \* argument: state contacts
  orderVisible,      \* argument: state visibleContacts / visibleMapContacts
  orderCity,         \* argument: state selectedCity
  orderedFirst,      \* what getOrderedContacts returned, or Null before the call
  orderedSecond,     \* the sidebar's orderedContacts, or Null before the call
  \* ---- SpecSelect: the selection handlers of HomePage
  chosenCity,        \* state selectedCity
  selectedContact,   \* state selectedContact
  showSidebar,       \* state showSidebar
  narrowWindow,      \* window.innerWidth < 768
  \* ---- SpecFuzzy: fuzzyMatch as a function
  fuzzyText,         \* the argument text
  fuzzyQuery,        \* the argument query
  fuzzyResult,       \* Some(the value returned), or Null before the call
  \* ---- SpecNear: findNearbyCities as a function
  nearTarget,        \* the argument targetCity
  nearLocations,     \* the argument allLocations
  nearRadius,        \* Some(the argument radiusMiles), or Null when it is omitted
  nearResult,        \* Some(the value returned), or Null before the call
  \* ---- SpecImport: CSVUploader.processFile with parseCSV
  csvFile,           \* the rows of the file being imported
  parserUsed,        \* history: which parseCSV the import ran
  importPc,          \* where processFile is: "idle", "parsing" or "uploading"
  isUploading,       \* state isUploading
  uploadProgress,    \* state uploadProgress
  uploadErrors,      \* state errors
  parseWarnings,     \* history: the warnings of the last parse result
  uploadBody,        \* Some(the contacts posted to /api/upload), or Null
  \* ---- SpecTypes: the place types chosen for a geocoding query
  typesQuery,        \* the query (city) being geocoded
  typesGlobal,       \* tryGlobal / the global parameter
  clientRequest,     \* Some(the types and country filter of the client's URL), or Null
  routeRequest,      \* Some(the types and country filter of the route's URL), or Null
  \* ---- SpecList: the in-view marks of ContactsList
  listContacts,      \* prop contacts, as ordered by the page
  listVisible,       \* the visible contacts last reported by the map
  listMarks,         \* Some(the marks and the count rendered), or Null before the render
  \* ---- SpecDist: calculateDistance as a function
  distFrom,          \* the first point, [longitude, latitude]
  distTo,            \* the second point
  distMeasured,      \* Some(the distances there, back and from the first point to itself), or Null
  \* ---- SpecUpload: POST /api/upload and the address geocoder
  upPc,              \* where the handler is: idle, clearing, geocoding, upserting, done
  upVersion,         \* which POST handler serves the request
  upContacts,        \* data.contacts, with the coordinates the loop has assigned
  upIndex,           \* the position of the loop in upContacts, from 1
  upResults,         \* results: successful, failed and the number of errors
  upCache,           \* GEOCODING_CACHE of the geocoding module
  upTable,           \* the rows the handler has written for the request
  upResponse,        \* Some(the response of the last request), or Null
  \* ---- SpecCaps: the three search evaluations over longer contact lists
  capsContacts,      \* prop contacts of the dialog
  capsQuery,         \* the search term
  capsFuzzy,         \* Some(results of the fuzzy-match search), or Null before it ran
  capsProximity,     \* Some(results of the proximity search), or Null
  capsFlat,          \* Some(results of the flat-cursor search), or Null
  \* ---- SpecMarkers: the markers of MapboxMap
  mkCity,            \* prop selectedCity
  mkTimer,           \* the initializeMap timer is pending
  mkMap,             \* map.current: none, loading (created, not loaded) or loaded
  mkTracked,         \* markers.current
  mkOnMap,           \* the ids of the markers attached to the map map.current
  mkFlights          \* the geocodeAndFlyToCity calls awaiting geocodeCity

geoVars == <<geocodeCache, calls, served>>

cityVars == <<cityCalls, isGeocoding>>

flyVars == <<flySelectedCity, initTimer, mapCurrent, loadPending, lastGeocodedCity,
             flyCalls, flyGeocoding, nameEnded, lastInvocation>>

searchVars == <<isOpen, searchTerm, results, selectedIndex, activeSection, isLoading,
                cityLocations, timeoutId, evals, startupRuns, sinceKey, quick,
                evalsSinceKey>>

pageVars == <<contacts, loading, error, selectedCity, visibleContacts, fetches,
              mapTimer, mapLive>>

flatVars == <<flatOpen, flatTerm, flatResults, selectedItemIndex, totalItems, searchMode,
              flatSelected>>

navVars == <<navOpen, navTerm, navResults, navIndex, navSection, navSelected,
             navArrowed>>

orderVars == <<orderContacts, orderVisible, orderCity, orderedFirst, orderedSecond>>

selectVars == <<chosenCity, selectedContact, showSidebar, narrowWindow>>

fuzzyVars == <<fuzzyText, fuzzyQuery, fuzzyResult>>

nearVars == <<nearTarget, nearLocations, nearRadius, nearResult>>

importVars ==
  <<csvFile, parserUsed, importPc, isUploading, uploadProgress, uploadErrors,
    parseWarnings, uploadBody>>

typesVars == <<typesQuery, typesGlobal, clientRequest, routeRequest>>

listVars == <<listContacts, listVisible, listMarks>>

distVars == <<distFrom, distTo, distMeasured>>

uploadVars == <<upPc, upVersion, upContacts, upIndex, upResults, upCache, upTable, upResponse>>

capsVars == <<capsContacts, capsQuery, capsFuzzy, capsProximity, capsFlat>>

markerVars == <<mkCity, mkTimer, mkMap, mkTracked, mkOnMap, mkFlights>>

\* the variables of the specifications that follow the first five
extVars ==
  <<flatVars, navVars, orderVars, selectVars, fuzzyVars, nearVars, importVars, typesVars, listVars, distVars, uploadVars, capsVars, markerVars>>

coreVars == <<geoVars, cityVars, flyVars, searchVars, pageVars>>

\* what the actions of one of the later specifications leave unchanged
notFlatVars ==
  <<coreVars, navVars, orderVars, selectVars, fuzzyVars, nearVars, importVars, typesVars, listVars, distVars, uploadVars, capsVars, markerVars>>

notNavVars ==
  <<coreVars, flatVars, orderVars, selectVars, fuzzyVars, nearVars, importVars, typesVars, listVars, distVars, uploadVars, capsVars, markerVars>>

notOrderVars ==
  <<coreVars, flatVars, navVars, selectVars, fuzzyVars, nearVars, importVars, typesVars, listVars, distVars, uploadVars, capsVars, markerVars>>

notSelectVars ==
  <<coreVars, flatVars, navVars, orderVars, fuzzyVars, nearVars, importVars, typesVars, listVars, distVars, uploadVars, capsVars, markerVars>>

notFuzzyVars ==
  <<coreVars, flatVars, navVars, orderVars, selectVars, nearVars, importVars, typesVars, listVars, distVars, uploadVars, capsVars, markerVars>>

notNearVars ==
  <<coreVars, flatVars, navVars, orderVars, selectVars, fuzzyVars, importVars, typesVars, listVars, distVars, uploadVars, capsVars, markerVars>>

notImportVars ==
  <<coreVars, flatVars, navVars, orderVars, selectVars, fuzzyVars, nearVars, typesVars, listVars, distVars, uploadVars, capsVars, markerVars>>

notTypesVars ==
  <<coreVars, flatVars, navVars, orderVars, selectVars, fuzzyVars, nearVars, importVars, listVars, distVars, uploadVars, capsVars, markerVars>>

notListVars ==
  <<coreVars, flatVars, navVars, orderVars, selectVars, fuzzyVars, nearVars, importVars, typesVars, distVars, uploadVars, capsVars, markerVars>>

notDistVars ==
  <<coreVars, flatVars, navVars, orderVars, selectVars, fuzzyVars, nearVars, importVars, typesVars, listVars, uploadVars, capsVars, markerVars>>

notUploadVars ==
  <<coreVars, flatVars, navVars, orderVars, selectVars, fuzzyVars, nearVars, importVars, typesVars, listVars, distVars, capsVars, markerVars>>

notCapsVars ==
  <<coreVars, flatVars, navVars, orderVars, selectVars, fuzzyVars, nearVars, importVars, typesVars, listVars, distVars, uploadVars, markerVars>>

notMarkerVars ==
  <<coreVars, flatVars, navVars, orderVars, selectVars, fuzzyVars, nearVars, importVars, typesVars, listVars, distVars, uploadVars, capsVars>>

vars == <<geocodeCache, calls, served, cityCalls, isGeocoding,
          flySelectedCity, initTimer, mapCurrent, loadPending, lastGeocodedCity,
          flyCalls, flyGeocoding, nameEnded, lastInvocation,
          isOpen, searchTerm, results, selectedIndex, activeSection, isLoading,
          cityLocations, timeoutId, evals, startupRuns, sinceKey, quick,
          evalsSinceKey,
          contacts, loading, error, selectedCity, visibleContacts, fetches,
          mapTimer, mapLive,
          flatOpen, flatTerm, flatResults, selectedItemIndex, totalItems, searchMode,
          flatSelected,
          navOpen, navTerm, navResults, navIndex, navSection, navSelected, navArrowed,
          orderContacts, orderVisible, orderCity, orderedFirst, orderedSecond,
          chosenCity, selectedContact, showSidebar, narrowWindow,
          fuzzyText, fuzzyQuery, fuzzyResult,
          nearTarget, nearLocations, nearRadius, nearResult,
          csvFile, parserUsed, importPc, isUploading, uploadProgress, uploadErrors,
          parseWarnings, uploadBody,
          typesQuery, typesGlobal, clientRequest, routeRequest,
          listContacts, listVisible, listMarks,
          distFrom, distTo, distMeasured,
          upPc, upVersion, upContacts, upIndex, upResults, upCache, upTable, upResponse,
          capsContacts, capsQuery, capsFuzzy, capsProximity, capsFlat,
          mkCity, mkTimer, mkMap, mkTracked, mkOnMap, mkFlights>>

(***************************************************************************)
(* Strings                                                                 *)
(***************************************************************************)
UpperChars == <<"A", "B", "C", "D", "E", "F", "G", "H", "I", "J", "K", "L", "M",
                "N", "O", "P", "Q", "R", "S", "T", "U", "V", "W", "X", "Y", "Z">>

LowerChars == <<"a", "b", "c", "d", "e", "f", "g", "h", "i", "j", "k", "l", "m",
                "n", "o", "p", "q", "r", "s", "t", "u", "v", "w", "x", "y", "z">>

Chars == {" "} \cup {UpperChars[i] : i \in 1..Len(UpperChars)}
               \cup {LowerChars[i] : i \in 1..Len(LowerChars)}

LowerChar ==
  [c \in Chars |->
     IF \E i \in 1..Len(UpperChars) : UpperChars[i] = c
       THEN LowerChars[CHOOSE i \in 1..Len(UpperChars) : UpperChars[i] = c]
       ELSE c]

\* String.prototype.toLowerCase
ToLower(s) == [i \in 1..Len(s) |-> LowerChar[s[i]]]

\* String.prototype.trim
RECURSIVE Trim(_)
Trim(s) ==
  IF s = <<>> THEN s
  ELSE IF Head(s) = " " THEN Trim(Tail(s))
  ELSE IF s[Len(s)] = " " THEN Trim(SubSeq(s, 1, Len(s) - 1))
  ELSE s

\* String.prototype.includes
Includes(s, t) == \E i \in 0..(Len(s) - Len(t)) : SubSeq(s, i + 1, i + Len(t)) = t

\* Array.prototype.slice(0, n)
\* a slice that keeps one element more
Take_OneMore(s, n) == SubSeq(s, 1, IF Len(s) < n + 1 THEN Len(s) ELSE n + 1)

Take(s, n) == SubSeq(s, 1, IF Len(s) < n THEN Len(s) ELSE n)

\* Array.from(new Set(s)): the first occurrence of each element, in order
RECURSIVE Dedup(_)
Dedup(s) ==
  IF s = <<>> THEN s
  ELSE LET r == Dedup(SubSeq(s, 1, Len(s) - 1))
           x == s[Len(s)]
       IN  IF \E i \in 1..Len(r) : r[i] = x THEN r ELSE Append(r, x)

\* UTF-16 order of the characters in use, for Array.prototype.sort on strings
CharOrder == <<" ">> \o UpperChars \o LowerChars

CharCode == [c \in Chars |-> CHOOSE i \in 1..Len(CharOrder) : CharOrder[i] = c]

RECURSIVE StrLess(_, _)
StrLess(a, b) ==
  IF b = <<>> THEN FALSE
  ELSE IF a = <<>> THEN TRUE
  ELSE IF Head(a) = Head(b) THEN StrLess(Tail(a), Tail(b))
  ELSE CharCode[Head(a)] < CharCode[Head(b)]

RECURSIVE SortStrings(_)
SortStrings(S) ==
  IF S = {} THEN <<>>
  ELSE LET m == CHOOSE x \in S : \A y \in S \ {x} : StrLess(x, y)
       IN  <<m>> \o SortStrings(S \ {m})

Min(a, b) == IF a < b THEN a ELSE b

Max(a, b) == IF a > b THEN a ELSE b

Empty == <<>>
Reno == <<"R", "e", "n", "o">>
Austin == <<"A", "u", "s", "t", "i", "n">>
reno == <<"r", "e", "n", "o">>
paris == <<"p", "a", "r", "i", "s">>

Null == [tag |-> "null"]

Some(c) == [tag |-> "some", value |-> c]

(***************************************************************************)
(* Bounds                                                                  *)
(***************************************************************************)
MaxCalls == 3
MaxCityCalls == 2
MaxFlyCalls == 2
MaxEvals == 1
MaxRuns == 1
MaxFetches == 2
DebounceTicks == 2

(***************************************************************************)
(* The geocoding provider, seen from its callers: each search fails        *)
(* (network error or non-2xx), finds nothing, or finds one feature.        *)
(***************************************************************************)
Coords == {<<10, 20>>, <<10, 1839>>}

ProviderOutcomes ==
  {[kind |-> "err"], [kind |-> "none"]} \cup {[kind |-> "hit", center |-> c] : c \in Coords}

(***************************************************************************)
(* GET /api/geocode (the version with the global retry).  outs are the     *)
(* provider's answers to the searches the handler makes, in order.  The    *)
(* result carries the HTTP response and, as history, how many restricted   *)
(* and global provider searches the handler made.                          *)
(***************************************************************************)
RECURSIVE RouteGET(_, _)
RouteGET(global, outs) ==
  LET o == Head(outs)
      nR == IF global THEN 0 ELSE 1
      nG == IF global THEN 1 ELSE 0
  IN  IF o.kind = "err"
        THEN [threw |-> FALSE, ok |-> FALSE, features |-> <<>>, global |-> global,
              nRestricted |-> nR, nGlobal |-> nG]
      ELSE IF o.kind = "none" /\ ~global
        THEN LET r == RouteGET(TRUE, Tail(outs))
             IN  [r EXCEPT !.nRestricted = @ + nR, !.nGlobal = @ + nG]
      ELSE [threw |-> FALSE, ok |-> TRUE,
            features |-> IF o.kind = "hit" THEN <<o.center>> ELSE <<>>,
            global |-> global, nRestricted |-> nR, nGlobal |-> nG]

\* fetch() itself rejecting (the request never reaches the route)
FetchThrew ==
  [threw |-> TRUE, ok |-> FALSE, features |-> <<>>, global |-> FALSE,
   nRestricted |-> 0, nGlobal |-> 0]

\* what /api/geocode answers to a request with or without global=true
RouteResponsesFor(global) ==
  {RouteGET(global, <<o1, o2>>) : o1 \in ProviderOutcomes, o2 \in ProviderOutcomes}
    \cup {FetchThrew}

RouteResponses ==
  {RouteGET(FALSE, <<o1, o2>>) : o1 \in ProviderOutcomes, o2 \in ProviderOutcomes}

\* the same responses without the history of the searches behind them
Answers ==
  {[r EXCEPT !.nRestricted = 0, !.nGlobal = 0, !.global = FALSE] :
     r \in RouteResponses \cup {FetchThrew}}

(***************************************************************************)
(* getGeocodedLocation                                                     *)
(***************************************************************************)
GeoNames == {Reno, reno}

CacheKeys ==
  LET names == GeoNames \cup {Austin, paris, <<"z", "q">>}
  IN  names \cup {ToLower(n) : n \in names}

CacheKey_Raw(city) == city

CacheKey(city) == ToLower(city)

\* lines 101-104: the cached location, or Null on a miss
CacheLookup(cache, city) == cache[CacheKey(city)]

LookupFinish_NoCacheWhenGlobal(cache, city, resp) ==
  IF resp.threw \/ ~resp.ok THEN [ret |-> Null, cache |-> cache, ended |-> "error"]
  ELSE IF resp.features = <<>> THEN [ret |-> Null, cache |-> cache, ended |-> "notfound"]
  ELSE LET location == [city |-> city, coordinates |-> resp.features[1]]
       IN  [ret |-> location,
            cache |-> IF resp.global THEN cache
                      ELSE [cache EXCEPT ![CacheKey(city)] = location],
            ended |-> "found"]

\* lines 110-139: what the call returns for a response, and the cache after it
LookupFinish(cache, city, resp) ==
  IF resp.threw \/ ~resp.ok THEN [ret |-> Null, cache |-> cache, ended |-> "error"]
  ELSE IF resp.features = <<>> THEN [ret |-> Null, cache |-> cache, ended |-> "notfound"]
  ELSE LET location == [city |-> city, coordinates |-> resp.features[1]]
       IN  [ret |-> location,
            cache |-> [cache EXCEPT ![CacheKey(city)] = location],
            ended |-> "found"]

NeverServed == [loc |-> Null, via |-> "none", last |-> "never"]

IdleCall ==
  [pc |-> "idle", city |-> <<>>, ret |-> Null, ended |-> "none",
   fetches |-> 0, nRestricted |-> 0, nGlobal |-> 0, wrote |-> FALSE,
   prior |-> NeverServed]

InitGeo ==
  /\ geocodeCache = [k \in CacheKeys |-> Null]
  /\ calls = [i \in 1..MaxCalls |-> IdleCall]
  /\ served = [k \in {ToLower(n) : n \in GeoNames} |-> NeverServed]

\* A caller invokes getGeocodedLocation(city): the cache check, then the request.
\* Invocations are numbered in the order they start.
GetGeocodedLocation(i, city) ==
  /\ calls[i].pc = "idle"
  /\ \A j \in 1..(i - 1) : calls[j].pc # "idle"
  /\ LET hit == CacheLookup(geocodeCache, city)
         c0 == [calls[i] EXCEPT !.city = city, !.prior = served[ToLower(city)]]
     IN  IF hit # Null
           THEN calls' = [calls EXCEPT ![i] = [c0 EXCEPT !.pc = "done", !.ret = hit,
                                                        !.ended = "cached"]]
           ELSE calls' = [calls EXCEPT ![i] = [c0 EXCEPT !.pc = "fetch", !.fetches = 1]]
  /\ UNCHANGED <<geocodeCache, served>>
  /\ UNCHANGED <<cityVars, flyVars, searchVars, pageVars, extVars>>

\* The response of /api/geocode arrives and the call runs to its return.
LookupReturns(i, resp) ==
  /\ calls[i].pc = "fetch"
  /\ LET c == calls[i]
         f == LookupFinish(geocodeCache, c.city, resp)
         k == ToLower(c.city)
     IN  /\ geocodeCache' = f.cache
         /\ calls' = [calls EXCEPT ![i] =
                        [c EXCEPT !.pc = "done", !.ret = f.ret, !.ended = f.ended,
                                  !.nRestricted = resp.nRestricted,
                                  !.nGlobal = resp.nGlobal,
                                  !.wrote = (f.cache # geocodeCache)]]
         /\ served' = [served EXCEPT ![k] =
                         IF f.ended = "found"
                           THEN [loc |-> f.ret,
                                 via |-> IF resp.global THEN "global" ELSE "restricted",
                                 last |-> "found"]
                           ELSE [@ EXCEPT !.last = f.ended]]
  /\ UNCHANGED <<cityVars, flyVars, searchVars, pageVars, extVars>>

NextGeo ==
  \/ \E i \in 1..MaxCalls, city \in GeoNames : GetGeocodedLocation(i, city)
  \/ \E i \in 1..MaxCalls, resp \in RouteResponses \cup {FetchThrew} : LookupReturns(i, resp)


(***************************************************************************)
(* MapboxMap.geocodeCity(city, tryGlobal = false): the direct provider     *)
(* call, then the /api/geocode fallback, then the explicit global retry.   *)
(***************************************************************************)
IdleCityCall ==
  [pc |-> "idle", tryGlobal |-> FALSE, ret |-> Null, ended |-> "none",
   nRestricted |-> 0, nGlobal |-> 0]

InitCity ==
  /\ cityCalls = [i \in 1..MaxCityCalls |-> IdleCityCall]
  /\ isGeocoding = FALSE

\* return (through the finally block, which clears isGeocoding)
CityReturn(i, c, ret, ended) ==
  /\ cityCalls' = [cityCalls EXCEPT ![i] = [c EXCEPT !.pc = "done", !.ret = ret,
                                                     !.ended = ended]]
  /\ isGeocoding' = FALSE

\* lines 162-188: setIsGeocoding(true) and the direct call, country-restricted
GeocodeCityStart(i) ==
  /\ cityCalls[i].pc = "idle"
  /\ \A j \in 1..(i - 1) : cityCalls[j].pc # "idle"
  /\ cityCalls' = [cityCalls EXCEPT ![i] = [@ EXCEPT !.pc = "direct", !.nRestricted = 1]]
  /\ isGeocoding' = TRUE
  /\ UNCHANGED <<geoVars, flyVars, searchVars, pageVars, extVars>>

\* lines 188-249: the direct call's outcome; unless it found the place or
\* already searched globally, the request to /api/geocode follows
GeocodeCityDirect(i) ==
  /\ cityCalls[i].pc = "direct"
  /\ \E o \in ProviderOutcomes :
     LET c == cityCalls[i]
     IN  IF o.kind = "hit"
           THEN CityReturn(i, c, o.center, "found")
         ELSE IF o.kind = "none" /\ c.tryGlobal
           THEN CityReturn(i, c, Null, "notfound")
         ELSE /\ cityCalls' = [cityCalls EXCEPT ![i] =
                      [c EXCEPT !.pc = "route",
                                !.tryGlobal = IF o.kind = "none" THEN TRUE ELSE @]]
              /\ UNCHANGED isGeocoding
  /\ UNCHANGED <<geoVars, flyVars, searchVars, pageVars, extVars>>

\* lines 249-305: the fallback's response; with no results and tryGlobal
\* still false the client asks the route again with global=true
GeocodeCityRoute(i) ==
  /\ cityCalls[i].pc = "route"
  /\ \E resp \in RouteResponsesFor(cityCalls[i].tryGlobal) :
     LET c0 == cityCalls[i]
         c == [c0 EXCEPT !.nRestricted = @ + resp.nRestricted,
                         !.nGlobal = @ + resp.nGlobal]
     IN  IF resp.threw \/ ~resp.ok
           THEN CityReturn(i, c, Null, "error")
         ELSE IF resp.features # <<>>
           THEN CityReturn(i, c, resp.features[1], "found")
         ELSE IF ~c.tryGlobal
           THEN /\ cityCalls' = [cityCalls EXCEPT ![i] = [c EXCEPT !.pc = "routeGlobal"]]
                /\ UNCHANGED isGeocoding
         ELSE CityReturn(i, c, Null, "notfound")
  /\ UNCHANGED <<geoVars, flyVars, searchVars, pageVars, extVars>>

\* lines 305-331: the response of the explicit global retry
GeocodeCityGlobal(i) ==
  /\ cityCalls[i].pc = "routeGlobal"
  /\ \E resp \in RouteResponsesFor(TRUE) :
     LET c0 == cityCalls[i]
         c == [c0 EXCEPT !.nRestricted = @ + resp.nRestricted,
                         !.nGlobal = @ + resp.nGlobal]
     IN  IF resp.threw \/ ~resp.ok
           THEN CityReturn(i, c, Null, "error")
         ELSE IF resp.features # <<>>
           THEN CityReturn(i, c, resp.features[1], "found")
         ELSE CityReturn(i, c, Null, "notfound")
  /\ UNCHANGED <<geoVars, flyVars, searchVars, pageVars, extVars>>

NextCity ==
  \/ \E i \in 1..MaxCityCalls : GeocodeCityStart(i)
  \/ \E i \in 1..MaxCityCalls : GeocodeCityDirect(i)
  \/ \E i \in 1..MaxCityCalls : GeocodeCityRoute(i)
  \/ \E i \in 1..MaxCityCalls : GeocodeCityGlobal(i)


(***************************************************************************)
(* The earlier MapboxMap: geocodeAndFlyToCity skips a city equal to        *)
(* lastGeocodedCity.current, which it sets before the request is made.     *)
(***************************************************************************)
FlyNames == {Reno, Austin}

IdleFlyCall == [pc |-> "idle", city |-> Empty]

NoInvocation == [city |-> Empty, prior |-> "never", action |-> "none"]

InitFly ==
  /\ flySelectedCity = Empty
  /\ initTimer = TRUE
  /\ mapCurrent = FALSE
  /\ loadPending = Null
  /\ lastGeocodedCity = Null
  /\ flyCalls = [i \in 1..MaxFlyCalls |-> IdleFlyCall]
  /\ flyGeocoding = FALSE
  /\ nameEnded = [n \in FlyNames |-> "never"]
  /\ lastInvocation = NoInvocation

FreeFlySlots == {i \in 1..MaxFlyCalls : flyCalls[i].pc = "idle"}

\* lines 534-547 and 363-382: the guards, then isGeocoding and the direct request
GeocodeAndFlyToCity(city) ==
  IF ~mapCurrent
    THEN UNCHANGED <<lastGeocodedCity, flyCalls, flyGeocoding, nameEnded, lastInvocation>>
  ELSE IF lastGeocodedCity = Some(city)
    THEN /\ lastInvocation' = [city |-> city, prior |-> nameEnded[city], action |-> "skipped"]
         /\ UNCHANGED <<lastGeocodedCity, flyCalls, flyGeocoding, nameEnded>>
  ELSE /\ FreeFlySlots # {}
       /\ LET i == CHOOSE j \in FreeFlySlots : \A k \in FreeFlySlots : j <= k
          IN  flyCalls' = [flyCalls EXCEPT ![i] = [pc |-> "direct", city |-> city]]
       /\ lastGeocodedCity' = Some(city)
       /\ flyGeocoding' = TRUE
       /\ lastInvocation' = [city |-> city, prior |-> nameEnded[city], action |-> "requested"]
       /\ nameEnded' = [nameEnded EXCEPT ![city] = "pending"]

\* HomePage passes a new selectedCity: the effects at lines 513-531
SelectCityProp(city) ==
  /\ city # flySelectedCity
  /\ flySelectedCity' = city
  /\ initTimer' = TRUE
  /\ IF city # Empty
       THEN GeocodeAndFlyToCity(city)
       ELSE UNCHANGED <<lastGeocodedCity, flyCalls, flyGeocoding, nameEnded, lastInvocation>>
  /\ UNCHANGED <<mapCurrent, loadPending>>
  /\ UNCHANGED <<geoVars, cityVars, searchVars, pageVars, extVars>>

\* lines 517-519 and 624-694: the timer fires, initializeMap replaces the map
InitializeMap ==
  /\ initTimer
  /\ initTimer' = FALSE
  /\ mapCurrent' = TRUE
  /\ loadPending' = Some(flySelectedCity)
  /\ UNCHANGED <<flySelectedCity, lastGeocodedCity, flyCalls, flyGeocoding,
                 nameEnded, lastInvocation>>
  /\ UNCHANGED <<geoVars, cityVars, searchVars, pageVars, extVars>>

\* lines 664-683: 'load': the city the handler captured is geocoded unless it is
\* the last geocoded one
MapLoad ==
  /\ loadPending # Null
  /\ loadPending' = Null
  /\ IF loadPending.value # Empty /\ loadPending # lastGeocodedCity
       THEN GeocodeAndFlyToCity(loadPending.value)
       ELSE UNCHANGED <<lastGeocodedCity, flyCalls, flyGeocoding, nameEnded, lastInvocation>>
  /\ UNCHANGED <<flySelectedCity, initTimer, mapCurrent>>
  /\ UNCHANGED <<geoVars, cityVars, searchVars, pageVars, extVars>>

\* lines 548-557: geocodeCity returned null
FlyFailed(i, ended) ==
  /\ flyCalls' = [flyCalls EXCEPT ![i] = IdleFlyCall]
  /\ flyGeocoding' = FALSE
  /\ nameEnded' = [nameEnded EXCEPT ![flyCalls[i].city] = ended]

\* lines 559-620: the city marker is placed and the map flies to it
FlyPlaced(i) ==
  /\ flyCalls' = [flyCalls EXCEPT ![i] = IdleFlyCall]
  /\ flyGeocoding' = FALSE
  /\ nameEnded' = [nameEnded EXCEPT ![flyCalls[i].city] = "found"]

\* lines 382-425: the direct call's outcome
FlyDirect(i) ==
  /\ flyCalls[i].pc = "direct"
  /\ \E o \in ProviderOutcomes :
       IF o.kind = "hit"
         THEN FlyPlaced(i)
         ELSE /\ flyCalls' = [flyCalls EXCEPT ![i].pc = "route"]
              /\ UNCHANGED <<flyGeocoding, nameEnded>>
  /\ UNCHANGED <<flySelectedCity, initTimer, mapCurrent, loadPending, lastGeocodedCity,
                 lastInvocation>>
  /\ UNCHANGED <<geoVars, cityVars, searchVars, pageVars, extVars>>

\* lines 425-477: the fallback's response
FlyRoute(i) ==
  /\ flyCalls[i].pc = "route"
  /\ \E resp \in RouteResponsesFor(FALSE) :
       IF resp.threw \/ ~resp.ok THEN FlyFailed(i, "error")
       ELSE IF resp.features # <<>> THEN FlyPlaced(i)
       ELSE FlyFailed(i, "notfound")
  /\ UNCHANGED <<flySelectedCity, initTimer, mapCurrent, loadPending, lastGeocodedCity,
                 lastInvocation>>
  /\ UNCHANGED <<geoVars, cityVars, searchVars, pageVars, extVars>>

NextFly ==
  \/ \E city \in FlyNames \cup {Empty} : SelectCityProp(city)
  \/ InitializeMap
  \/ MapLoad
  \/ \E i \in 1..MaxFlyCalls : FlyDirect(i)
  \/ \E i \in 1..MaxFlyCalls : FlyRoute(i)


(***************************************************************************)
(* CommandKSearch, the version with the proximity search.  Time advances   *)
(* in ticks of DebounceMs / DebounceTicks milliseconds; a network response *)
(* may arrive at any time.                                                 *)
(***************************************************************************)
DebounceMs == 300

TickMs == DebounceMs \div DebounceTicks

NoTimer == -1

CITY_PROXIMITY_RADIUS == 60

\* the contacts prop; a missing mailing_city or account_name is the empty string
SearchContacts ==
  << [id |-> 1, first_name |-> <<"A", "n", "n">>, last_name |-> <<"L", "e", "e">>,
      account_name |-> <<"A", "c", "m", "e">>, mailing_city |-> Austin],
     [id |-> 2, first_name |-> <<"B", "o">>, last_name |-> <<"R", "a", "y">>,
      account_name |-> Empty, mailing_city |-> Empty] >>

\* lines 33-39: the unique non-empty mailing cities, sorted
cities ==
  SortStrings({SearchContacts[i].mailing_city : i \in 1..Len(SearchContacts)} \ {Empty})

\* what the user can make the input hold
InputTexts == {Empty, <<"a", "u", "s">>, <<"P", "a", "r", "i", "s", " ">>, <<"z", "q">>}

\* Map.prototype.has / get / set / values on the entries in insertion order
MapHas(m, k) == \E i \in 1..Len(m) : m[i].key = k

MapGet(m, k) ==
  IF MapHas(m, k) THEN m[CHOOSE i \in 1..Len(m) : m[i].key = k].value ELSE Null

MapSet(m, k, v) ==
  IF MapHas(m, k)
    THEN [i \in 1..Len(m) |-> IF m[i].key = k THEN [key |-> k, value |-> v] ELSE m[i]]
    ELSE Append(m, [key |-> k, value |-> v])

MapValues(m) == [i \in 1..Len(m) |-> m[i].value]

\* the largest r of lo..hi with r * r <= n, by bisection
RECURSIVE SqrtBetween(_, _, _)
SqrtBetween(n, lo, hi) ==
  IF lo = hi THEN lo
  ELSE LET mid == (lo + hi + 1) \div 2
       IN  IF mid <= n \div mid THEN SqrtBetween(n, mid, hi) ELSE SqrtBetween(n, lo, mid - 1)

\* Math.sqrt, rounded down
ISqrt(n) == SqrtBetween(n, 0, n)

\* the haversine formula with a signed latitude term
calculateDistance_SignedLatitude(lat1, lon1, lat2, lon2) ==
  LET dLat == lat2 - lat1
      dLon == lon2 - lon1
  IN  dLat + ISqrt(dLon * dLon)

\* part_013 lines 19-43, in whole miles.  The points of the model lie near the
\* equator and their coordinates are counted in miles of arc, so that the
\* haversine formula takes its small-angle form: sin(x) = x and cos(lat) = 1
\* give a = (dLat^2 + dLon^2) / 4 and c = 2 sqrt(a), in units of the radius.
calculateDistance(lat1, lon1, lat2, lon2) ==
  LET dLat == lat2 - lat1
      dLon == lon2 - lon1
      a == dLat * dLat + dLon * dLon
  IN  ISqrt(a)

\* findNearbyCities with a radius test that leaves the boundary out
findNearbyCities_Strict(targetCity, allLocations, radiusMiles) ==
  LET near(location) ==
        calculateDistance(targetCity.coordinates[2], targetCity.coordinates[1],
                          location.coordinates[2], location.coordinates[1]) < radiusMiles
      nearbyCities == SelectSeq(allLocations, near)
  IN  [i \in 1..Len(nearbyCities) |-> nearbyCities[i].city]

\* part_013 lines 60-83; a location of the model always has coordinates
findNearbyCities(targetCity, allLocations, radiusMiles) ==
  LET near(location) ==
        calculateDistance(targetCity.coordinates[2], targetCity.coordinates[1],
                          location.coordinates[2], location.coordinates[1]) <= radiusMiles
      nearbyCities == SelectSeq(allLocations, near)
  IN  [i \in 1..Len(nearbyCities) |-> nearbyCities[i].city]

EmptyResults == [contacts |-> <<>>, cities |-> <<>>]

\* line 125
QueryTerm(text) == Trim(ToLower(text))

\* lines 133-135, for the cities memo given
DirectCityMatchesIn(cityList, term) ==
  LET matches(city) == Includes(ToLower(city), term)
  IN  Take(SelectSeq(cityList, matches), 3)

DirectCityMatches(term) == DirectCityMatchesIn(cities, term)

\* lines 143-147: the exact match, else the first partial match, else Null
ProximityCenterIn(cityList, term) ==
  LET isExact(city) == ToLower(city) = term
      exact == SelectSeq(cityList, isExact)
      partial == DirectCityMatchesIn(cityList, term)
  IN  IF exact # <<>> THEN Some(exact[1])
      ELSE IF partial # <<>> THEN Some(partial[1])
      ELSE Null

ProximityCenter(term) == ProximityCenterIn(cities, term)

\* the test of lines 149-150 with a threshold of one character
NeedsGeocode_LongerThanOne(term) == ProximityCenter(term) = Null /\ Len(term) > 1

\* lines 149-154: the term is sent to getGeocodedLocation
NeedsGeocode(term) == ProximityCenter(term) = Null /\ Len(term) > 2

\* lines 169-216: the results for a term, the city searched around (Some or
\* Null) and the cityLocations the effect run captured
SearchResultsIn(cs, cityList, term, searchedCity, locations) ==
  LET directCityMatches == DirectCityMatchesIn(cityList, term)
      searchCityLocation ==
        IF searchedCity = Null THEN Null ELSE MapGet(locations, searchedCity.value)
      nearbyCities ==
        IF searchCityLocation = Null THEN <<>>
        ELSE findNearbyCities(searchCityLocation, MapValues(locations),
                              CITY_PROXIMITY_RADIUS)
      combinedCities == Take(Dedup(directCityMatches \o nearbyCities), 6)
      direct(contact) ==
        \/ Includes(ToLower(contact.first_name \o <<" ">> \o contact.last_name), term)
        \/ contact.account_name # Empty /\ Includes(ToLower(contact.account_name), term)
      inCity(contact) ==
        /\ contact.mailing_city # Empty
        /\ \E i \in 1..Len(combinedCities) :
             ToLower(contact.mailing_city) = ToLower(combinedCities[i])
      matchedContacts ==
        Take(Dedup(SelectSeq(cs, direct) \o SelectSeq(cs, inCity)), 10)
  IN  [contacts |-> matchedContacts, cities |-> combinedCities,
       searchRadius |-> CITY_PROXIMITY_RADIUS, searchedCity |-> searchedCity]

SearchResults(term, searchedCity, locations) ==
  SearchResultsIn(SearchContacts, cities, term, searchedCity, locations)

\* lines 221-226
SectionAfter(res, section) ==
  IF res.contacts # <<>> THEN "contacts"
  ELSE IF res.cities # <<>> THEN "cities"
  ELSE section

\* lines 116-123 and 234-237: what a run of the search effect leaves behind
EffectTimer(open, text) ==
  IF open /\ Trim(text) # Empty THEN DebounceTicks ELSE NoTimer

EffectClears(open, text) == open /\ Trim(text) = Empty

\* lines 46-52 and 85: a run of the geocodeCities effect for the given
\* cityLocations; each city's cache check happens as the run starts
RunsAfter(runs, locations, cache) ==
  LET missing(city) == ~MapHas(locations, city)
      citiesToGeocode == SelectSeq(cities, missing)
  IN  IF citiesToGeocode = <<>> THEN runs
      ELSE Append(runs, [asked |-> citiesToGeocode,
                         hits |-> [i \in 1..Len(citiesToGeocode) |->
                                     CacheLookup(cache, citiesToGeocode[i])]])

IdleEval ==
  [pc |-> "idle", term |-> Empty, locations |-> <<>>, superseded |-> FALSE,
   closed |-> FALSE]

InitSearch ==
  /\ isOpen = FALSE
  /\ searchTerm = Empty
  /\ results = EmptyResults
  /\ selectedIndex = -1
  /\ activeSection = "contacts"
  /\ isLoading = FALSE
  /\ cityLocations = <<>>
  /\ timeoutId = NoTimer
  /\ evals = [i \in 1..MaxEvals |-> IdleEval]
  /\ startupRuns = RunsAfter(<<>>, <<>>, [k \in CacheKeys |-> Null])
  /\ sinceKey = DebounceTicks
  /\ quick = FALSE
  /\ evalsSinceKey = 0

\* history: which awaiting invocations a close or a newer query leaves behind
MarkClosed(es) ==
  [i \in 1..MaxEvals |->
     IF es[i].pc = "await" THEN [es[i] EXCEPT !.closed = TRUE] ELSE es[i]]

MarkSuperseded(es, term) ==
  [i \in 1..MaxEvals |->
     IF es[i].pc = "await" /\ es[i].term # term
       THEN [es[i] EXCEPT !.superseded = TRUE] ELSE es[i]]

\* lines 90-103: Cmd/Ctrl+K; the search effect then runs with the empty term
HotkeyOpen ==
  /\ isOpen' = TRUE
  /\ searchTerm' = Empty
  /\ results' = EmptyResults
  /\ selectedIndex' = -1
  /\ timeoutId' = NoTimer
  /\ sinceKey' = DebounceTicks
  /\ quick' = FALSE
  /\ evalsSinceKey' = 0
  /\ UNCHANGED <<activeSection, isLoading, cityLocations, evals, startupRuns>>
  /\ UNCHANGED <<geoVars, cityVars, flyVars, pageVars, extVars>>

\* lines 105-108, 314-325 and 346: Escape, a click outside, the backdrop;
\* the search effect's cleanup clears the timer and its body returns at line 117
CloseSession ==
  /\ isOpen
  /\ isOpen' = FALSE
  /\ timeoutId' = NoTimer
  /\ evals' = MarkClosed(evals)
  /\ UNCHANGED <<searchTerm, results, selectedIndex, activeSection, isLoading,
                 cityLocations, startupRuns, sinceKey, quick, evalsSinceKey>>
  /\ UNCHANGED <<geoVars, cityVars, flyVars, pageVars, extVars>>

\* line 367 and the search effect, lines 116-123 and 234-237
Keystroke(text) ==
  /\ isOpen
  /\ text # searchTerm
  /\ searchTerm' = text
  /\ timeoutId' = EffectTimer(TRUE, text)
  /\ IF EffectClears(TRUE, text)
       THEN results' = EmptyResults /\ selectedIndex' = -1
       ELSE UNCHANGED <<results, selectedIndex>>
  /\ quick' = (sinceKey * TickMs < DebounceMs)
  /\ sinceKey' = 0
  /\ evalsSinceKey' = 0
  /\ UNCHANGED <<isOpen, activeSection, isLoading, cityLocations, evals, startupRuns>>
  /\ UNCHANGED <<geoVars, cityVars, flyVars, pageVars, extVars>>

\* time passes; a timer that is due fires first
Tick ==
  /\ timeoutId # 0
  /\ timeoutId > 0 \/ sinceKey < DebounceTicks
  /\ timeoutId' = IF timeoutId > 0 THEN timeoutId - 1 ELSE timeoutId
  /\ sinceKey' = Min(sinceKey + 1, DebounceTicks)
  /\ UNCHANGED <<isOpen, searchTerm, results, selectedIndex, activeSection, isLoading,
                 cityLocations, evals, startupRuns, quick, evalsSinceKey>>
  /\ UNCHANGED <<geoVars, cityVars, flyVars, pageVars, extVars>>

FreeEvals == {i \in 1..MaxEvals : evals[i].pc = "idle"}

\* lines 128-232: the timer fires and performSearch runs, to its end or to the
\* await of line 155.  A cached location resolves without a request; the
\* setCityLocations of line 161 then re-runs both effects.
PerformSearch ==
  /\ timeoutId = 0
  /\ evalsSinceKey' = Min(evalsSinceKey + 1, 2)
  /\ LET term == QueryTerm(searchTerm)
     IN  IF ~NeedsGeocode(term)
           THEN LET res == SearchResults(term, ProximityCenter(term), cityLocations)
                IN  /\ results' = res
                    /\ selectedIndex' = -1
                    /\ activeSection' = SectionAfter(res, activeSection)
                    /\ isLoading' = FALSE
                    /\ timeoutId' = NoTimer
                    /\ evals' = MarkSuperseded(evals, term)
                    /\ UNCHANGED <<cityLocations, startupRuns>>
         ELSE IF CacheLookup(geocodeCache, term) # Null
           THEN LET geocodedTerm == CacheLookup(geocodeCache, term)
                    res == SearchResults(term, Some(geocodedTerm.city), cityLocations)
                    newMap == MapSet(cityLocations, geocodedTerm.city, geocodedTerm)
                IN  /\ cityLocations' = newMap
                    /\ results' = res
                    /\ selectedIndex' = -1
                    /\ activeSection' = SectionAfter(res, activeSection)
                    /\ isLoading' = FALSE
                    /\ timeoutId' = EffectTimer(isOpen, searchTerm)
                    /\ evals' = MarkSuperseded(evals, term)
                    /\ startupRuns' = RunsAfter(startupRuns, newMap, geocodeCache)
                    /\ Len(startupRuns') <= MaxRuns
         ELSE /\ FreeEvals # {}
              /\ LET i == CHOOSE j \in FreeEvals : \A k \in FreeEvals : j <= k
                 IN  evals' = [MarkSuperseded(evals, term) EXCEPT ![i] =
                                 [pc |-> "await", term |-> term, locations |-> cityLocations,
                                  superseded |-> FALSE, closed |-> FALSE]]
              /\ isLoading' = TRUE
              /\ timeoutId' = NoTimer
              /\ UNCHANGED <<results, selectedIndex, activeSection, cityLocations,
                             startupRuns>>
  /\ UNCHANGED <<isOpen, searchTerm, sinceKey, quick>>
  /\ UNCHANGED <<geoVars, cityVars, flyVars, pageVars, extVars>>

\* lines 155-231: the response of /api/geocode arrives and performSearch
\* continues with the term and the cityLocations its effect run captured
EvalReturns(i, resp) ==
  /\ evals[i].pc = "await"
  /\ LET e == evals[i]
         f == LookupFinish(geocodeCache, e.term, resp)
         found == f.ret # Null
         res == SearchResults(e.term, IF found THEN Some(f.ret.city) ELSE Null,
                              e.locations)
         newMap == IF found THEN MapSet(cityLocations, f.ret.city, f.ret)
                   ELSE cityLocations
     IN  /\ geocodeCache' = f.cache
         /\ cityLocations' = newMap
         /\ results' = IF found /\ EffectClears(isOpen, searchTerm)
                         THEN EmptyResults ELSE res
         /\ selectedIndex' = -1
         /\ activeSection' = SectionAfter(res, activeSection)
         /\ isLoading' = FALSE
         /\ timeoutId' = IF found THEN EffectTimer(isOpen, searchTerm) ELSE timeoutId
         /\ startupRuns' = IF found THEN RunsAfter(startupRuns, newMap, f.cache)
                           ELSE startupRuns
         /\ Len(startupRuns') <= MaxRuns
         /\ evals' = [evals EXCEPT ![i] = IdleEval]
  /\ UNCHANGED <<isOpen, searchTerm, sinceKey, quick, evalsSinceKey>>
  /\ UNCHANGED <<calls, served, cityVars, flyVars, pageVars, extVars>>

EvalResumes(i) == \E resp \in Answers : EvalReturns(i, resp)

\* lines 60-72: the batch's lookups finish; a city that was cached when the
\* run started yields its cached location, the others what their response gives
RECURSIVE BatchFinish(_, _, _, _)
BatchFinish(cache, run, resps, i) ==
  IF i > Len(run.asked) THEN [cache |-> cache, found |-> <<>>]
  ELSE LET city == run.asked[i]
           f == IF run.hits[i] # Null
                  THEN [ret |-> run.hits[i], cache |-> cache, ended |-> "cached"]
                  ELSE LookupFinish(cache, city, resps[i])
           rest == BatchFinish(f.cache, run, resps, i + 1)
       IN  [cache |-> rest.cache,
            found |-> IF f.ret # Null
                        THEN <<[key |-> city, value |-> f.ret]>> \o rest.found
                        ELSE rest.found]

\* lines 76-82
RECURSIVE MapMerge(_, _)
MapMerge(m, entries) ==
  IF entries = <<>> THEN m
  ELSE MapMerge(MapSet(m, Head(entries).key, Head(entries).value), Tail(entries))

RemoveAt(s, r) == SubSeq(s, 1, r - 1) \o SubSeq(s, r + 1, Len(s))

\* lines 56-85: a geocodeCities run gets its batch back and calls
\* setCityLocations, which re-runs the search effect and the geocodeCities effect
GeocodeCitiesReturns(r) ==
  /\ r \in 1..Len(startupRuns)
  /\ \E resps \in [1..Len(startupRuns[r].asked) -> Answers] :
       LET b == BatchFinish(geocodeCache, startupRuns[r], resps, 1)
           newLocations == MapMerge(cityLocations, b.found)
       IN  /\ geocodeCache' = b.cache
           /\ cityLocations' = newLocations
           /\ startupRuns' = RunsAfter(RemoveAt(startupRuns, r), newLocations, b.cache)
  /\ timeoutId' = EffectTimer(isOpen, searchTerm)
  /\ IF EffectClears(isOpen, searchTerm)
       THEN results' = EmptyResults /\ selectedIndex' = -1
       ELSE UNCHANGED <<results, selectedIndex>>
  /\ UNCHANGED <<isOpen, searchTerm, activeSection, isLoading, evals, sinceKey, quick,
                 evalsSinceKey>>
  /\ UNCHANGED <<calls, served, cityVars, flyVars, pageVars, extVars>>

\* lines 246-270
ArrowDown ==
  /\ isOpen
  /\ LET totalContactItems == Len(results.contacts)
         totalCityItems == Len(results.cities)
     IN  /\ totalContactItems + totalCityItems # 0
         /\ IF activeSection = "contacts"
              THEN IF selectedIndex >= totalContactItems - 1
                     THEN IF totalCityItems > 0
                            THEN activeSection' = "cities" /\ selectedIndex' = 0
                            ELSE UNCHANGED <<activeSection, selectedIndex>>
                     ELSE /\ selectedIndex' = Min(selectedIndex + 1, totalContactItems - 1)
                          /\ UNCHANGED activeSection
              ELSE /\ selectedIndex' = Min(selectedIndex + 1, totalCityItems - 1)
                   /\ UNCHANGED activeSection
  /\ UNCHANGED <<isOpen, searchTerm, results, isLoading, cityLocations, timeoutId, evals,
                 startupRuns, sinceKey, quick, evalsSinceKey>>
  /\ UNCHANGED <<geoVars, cityVars, flyVars, pageVars, extVars>>

\* lines 273-291
ArrowUp ==
  /\ isOpen
  /\ IF activeSection = "cities"
       THEN IF selectedIndex <= 0
              THEN IF Len(results.contacts) > 0
                     THEN /\ activeSection' = "contacts"
                          /\ selectedIndex' = Len(results.contacts) - 1
                     ELSE UNCHANGED <<activeSection, selectedIndex>>
              ELSE /\ selectedIndex' = Max(selectedIndex - 1, 0)
                   /\ UNCHANGED activeSection
       ELSE /\ selectedIndex' = Max(selectedIndex - 1, 0)
            /\ UNCHANGED activeSection
  /\ UNCHANGED <<isOpen, searchTerm, results, isLoading, cityLocations, timeoutId, evals,
                 startupRuns, sinceKey, quick, evalsSinceKey>>
  /\ UNCHANGED <<geoVars, cityVars, flyVars, pageVars, extVars>>

\* lines 294-306: Enter on a selected item calls the page's callback and closes
EnterSelect ==
  /\ isOpen
  /\ selectedIndex >= 0
  /\ \/ activeSection = "contacts" /\ selectedIndex < Len(results.contacts)
     \/ activeSection = "cities" /\ selectedIndex < Len(results.cities)
  /\ isOpen' = FALSE
  /\ timeoutId' = NoTimer
  /\ evals' = MarkClosed(evals)
  /\ UNCHANGED <<searchTerm, results, selectedIndex, activeSection, isLoading,
                 cityLocations, startupRuns, sinceKey, quick, evalsSinceKey>>
  /\ UNCHANGED <<geoVars, cityVars, flyVars, pageVars, extVars>>

NextSearch ==
  \/ HotkeyOpen
  \/ CloseSession
  \/ \E text \in InputTexts : Keystroke(text)
  \/ Tick
  \/ PerformSearch
  \/ \E i \in 1..MaxEvals : EvalResumes(i)
  \/ \E r \in 1..MaxRuns : GeocodeCitiesReturns(r)
  \/ ArrowDown
  \/ ArrowUp
  \/ EnterSelect


(***************************************************************************)
(* HomePage (the version with getOrderedContacts) and the callbacks of its *)
(* MapboxMap.  The handlers of a map use the contacts of the render that   *)
(* scheduled initializeMap.                                                *)
(***************************************************************************)
\* the contacts table; latitude and longitude 0 stand for a contact without coordinates
StoredContacts ==
  << [id |-> 1, mailing_city |-> Austin, latitude |-> 30, longitude |-> -97],
     [id |-> 2, mailing_city |-> Reno, latitude |-> 39, longitude |-> -119],
     [id |-> 3, mailing_city |-> Austin, latitude |-> 0, longitude |-> 0],
     [id |-> 4, mailing_city |-> Reno, latitude |-> 45, longitude |-> 0] >>

SelectableCities == {Empty, Austin, Reno}

\* the bounds the map can have after a move or a zoom
Viewports ==
  { [sw |-> [lng |-> -125, lat |-> 25], ne |-> [lng |-> -65, lat |-> 50]],
    [sw |-> [lng |-> -98, lat |-> 29], ne |-> [lng |-> -96, lat |-> 31]],
    [sw |-> [lng |-> 0, lat |-> 40], ne |-> [lng |-> 10, lat |-> 50]] }

\* part_010 lines 9-14: GET /api/contacts with or without ?city=
ContactsQuery(city) ==
  LET matches(contact) == Includes(ToLower(contact.mailing_city), ToLower(city))
  IN  IF city = Empty THEN StoredContacts ELSE SelectSeq(StoredContacts, matches)

\* how a request for the contacts can end: the list, an error whose message
\* names 'fetch' or 'network', or another error
FetchOutcomes == {"ok", "fetchError", "otherError"}

\* MapboxMap lines 61-63
ValidContacts(cs) ==
  LET valid(contact) == contact.latitude # 0 /\ contact.longitude # 0
  IN  SelectSeq(cs, valid)

\* MapboxMap lines 569-579
InBounds(cs, bounds) ==
  LET inside(contact) ==
        /\ contact.longitude # 0 /\ contact.latitude # 0
        /\ contact.longitude >= bounds.sw.lng
        /\ contact.longitude <= bounds.ne.lng
        /\ contact.latitude >= bounds.sw.lat
        /\ contact.latitude <= bounds.ne.lat
  IN  SelectSeq(cs, inside)

\* MapboxMap lines 732-734
AtSamePoint(cs, contact) ==
  LET same(c) == c.latitude = contact.latitude /\ c.longitude = contact.longitude
  IN  SelectSeq(cs, same)

CityCompare_NoContains(a, b, city) ==
  LET aCity == ToLower(a.mailing_city)
      bCity == ToLower(b.mailing_city)
      searchCity == ToLower(city)
  IN  IF aCity = searchCity /\ bCity # searchCity THEN -1
      ELSE IF bCity = searchCity /\ aCity # searchCity THEN 1
      ELSE IF StrLess(aCity, bCity) THEN -1
      ELSE IF StrLess(bCity, aCity) THEN 1
      ELSE 0

\* lines 138-157: the comparator of the sort, as -1, 0 or 1
CityCompare(a, b, city) ==
  LET aCity == ToLower(a.mailing_city)
      bCity == ToLower(b.mailing_city)
      searchCity == ToLower(city)
      aContains == Includes(aCity, searchCity)
      bContains == Includes(bCity, searchCity)
  IN  IF aCity = searchCity /\ bCity # searchCity THEN -1
      ELSE IF bCity = searchCity /\ aCity # searchCity THEN 1
      ELSE IF aContains /\ ~bContains THEN -1
      ELSE IF bContains /\ ~aContains THEN 1
      ELSE IF StrLess(aCity, bCity) THEN -1
      ELSE IF StrLess(bCity, aCity) THEN 1
      ELSE 0

\* Array.prototype.sort with that comparator: a stable sort
RECURSIVE SortByCity(_, _)
SortByCity(cs, city) ==
  IF cs = <<>> THEN cs
  ELSE LET r == SortByCity(SubSeq(cs, 1, Len(cs) - 1), city)
           x == cs[Len(cs)]
           k == IF \E i \in 1..Len(r) : CityCompare(r[i], x, city) > 0
                  THEN (CHOOSE i \in 1..Len(r) :
                          /\ CityCompare(r[i], x, city) > 0
                          /\ \A j \in 1..(i - 1) : CityCompare(r[j], x, city) <= 0) - 1
                  ELSE Len(r)
       IN  SubSeq(r, 1, k) \o <<x>> \o SubSeq(r, k + 1, Len(r))

\* lines 124-158
OrderedContacts(cs, visible, city) ==
  IF Len(visible) > 0
    THEN LET hidden(c) == ~\E i \in 1..Len(visible) : visible[i].id = c.id
         IN  visible \o SelectSeq(cs, hidden)
  ELSE IF city = Empty THEN cs
  ELSE SortByCity(cs, city)

getOrderedContacts == OrderedContacts(contacts, visibleContacts, selectedCity)

IdleFetch == [pc |-> "idle", city |-> Empty, retryCount |-> 0]

\* the page is mounted: the first fetchContacts is awaiting its response and
\* the map's first initializeMap timer is pending
InitPage ==
  /\ contacts = <<>>
  /\ loading = TRUE
  /\ error = FALSE
  /\ selectedCity = Empty
  /\ visibleContacts = <<>>
  /\ fetches = [i \in 1..MaxFetches |->
                  IF i = 1 THEN [pc |-> "fetch", city |-> Empty, retryCount |-> 0]
                  ELSE IdleFetch]
  /\ mapTimer = Some(<<>>)
  /\ mapLive = Null

FreeFetches == {i \in 1..MaxFetches : fetches[i].pc = "idle"}

\* lines 82-92, 108-117 and 328: a place is selected or the selection is
\* cleared; the fetch effect and the map's initialising effect run again
SelectCity(city) ==
  /\ city # selectedCity
  /\ FreeFetches # {}
  /\ selectedCity' = city
  /\ LET i == CHOOSE j \in FreeFetches : \A k \in FreeFetches : j <= k
     IN  fetches' = [fetches EXCEPT ![i] = [pc |-> "fetch", city |-> city, retryCount |-> 0]]
  /\ loading' = TRUE
  /\ mapTimer' = Some(ValidContacts(contacts))
  /\ UNCHANGED <<contacts, error, visibleContacts, mapLive>>
  /\ UNCHANGED <<geoVars, cityVars, flyVars, searchVars, extVars>>

\* lines 38-76: the response to a fetchContacts attempt
FetchResponds(i, outcome) ==
  /\ fetches[i].pc = "fetch"
  /\ loading' = FALSE
  /\ IF outcome = "ok"
       THEN /\ contacts' = ContactsQuery(fetches[i].city)
            /\ error' = FALSE
            /\ fetches' = [fetches EXCEPT ![i] = IdleFetch]
            /\ mapTimer' = Some(ValidContacts(contacts'))
       ELSE IF outcome = "fetchError" /\ fetches[i].retryCount < 2
         THEN /\ fetches' = [fetches EXCEPT ![i].pc = "wait"]
              /\ UNCHANGED <<contacts, error, mapTimer>>
       ELSE /\ contacts' = <<>>
            /\ error' = TRUE
            /\ fetches' = [fetches EXCEPT ![i] = IdleFetch]
            /\ mapTimer' = Some(<<>>)
  /\ UNCHANGED <<selectedCity, visibleContacts, mapLive>>
  /\ UNCHANGED <<geoVars, cityVars, flyVars, searchVars, extVars>>

\* lines 61-65 and 30-38: the retry timer fires and the attempt is repeated
RetryFetch(i) ==
  /\ fetches[i].pc = "wait"
  /\ fetches' = [fetches EXCEPT ![i].pc = "fetch", ![i].retryCount = @ + 1]
  /\ loading' = TRUE
  /\ UNCHANGED <<contacts, error, selectedCity, visibleContacts, mapTimer, mapLive>>
  /\ UNCHANGED <<geoVars, cityVars, flyVars, searchVars, extVars>>

\* MapboxMap lines 466-468 and 482-552: the timer fires, a new map replaces the old
MapInitialize ==
  /\ mapTimer # Null
  /\ mapLive' = [contacts |-> mapTimer.value, loaded |-> FALSE]
  /\ mapTimer' = Null
  /\ UNCHANGED <<contacts, loading, error, selectedCity, visibleContacts, fetches>>
  /\ UNCHANGED <<geoVars, cityVars, flyVars, searchVars, extVars>>

\* MapboxMap lines 521-540 and 555-612: 'load', with the first updateVisibleContacts
MapLoaded(bounds) ==
  /\ mapLive # Null
  /\ ~mapLive.loaded
  /\ mapLive' = [mapLive EXCEPT !.loaded = TRUE]
  /\ visibleContacts' = InBounds(mapLive.contacts, bounds)
  /\ UNCHANGED <<contacts, loading, error, selectedCity, fetches, mapTimer>>
  /\ UNCHANGED <<geoVars, cityVars, flyVars, searchVars, extVars>>

\* MapboxMap lines 533-536 and 555-612: 'moveend' or 'zoomend'
ViewportChange(bounds) ==
  /\ mapLive # Null
  /\ mapLive.loaded
  /\ visibleContacts' = InBounds(mapLive.contacts, bounds)
  /\ UNCHANGED <<contacts, loading, error, selectedCity, fetches, mapTimer, mapLive>>
  /\ UNCHANGED <<geoVars, cityVars, flyVars, searchVars, extVars>>

\* MapboxMap lines 729-738: a contact's marker is clicked
MarkerClick(m) ==
  /\ mapLive # Null
  /\ mapLive.loaded
  /\ m \in 1..Len(mapLive.contacts)
  /\ visibleContacts' = AtSamePoint(mapLive.contacts, mapLive.contacts[m])
  /\ UNCHANGED <<contacts, loading, error, selectedCity, fetches, mapTimer, mapLive>>
  /\ UNCHANGED <<geoVars, cityVars, flyVars, searchVars, extVars>>

NextPage ==
  \/ \E city \in SelectableCities : SelectCity(city)
  \/ \E i \in 1..MaxFetches, outcome \in FetchOutcomes : FetchResponds(i, outcome)
  \/ \E i \in 1..MaxFetches : RetryFetch(i)
  \/ MapInitialize
  \/ \E bounds \in Viewports : MapLoaded(bounds)
  \/ \E bounds \in Viewports : ViewportChange(bounds)
  \/ \E m \in 1..Len(StoredContacts) : MarkerClick(m)

(***************************************************************************)
(* CommandKSearch, the version with one flat cursor over contacts and      *)
(* cities and a local / global search mode                                 *)
(* (src/components/search/CommandKSearch.tsx lines 1-319).                 *)
(***************************************************************************)
\* the contacts prop
FlatContacts ==
  << [id |-> 1, first_name |-> <<"A", "n", "n">>, last_name |-> <<"L", "e", "e">>,
      account_name |-> <<"A", "c", "m", "e">>, mailing_city |-> Austin,
      mailing_state |-> <<"T", "X">>],
     [id |-> 2, first_name |-> <<"B", "o">>, last_name |-> <<"R", "a", "y">>,
      account_name |-> Empty, mailing_city |-> Reno, mailing_state |-> <<"N", "V">>] >>

\* lines 48-51: the unique non-empty mailing cities in the order of the contacts
allCities ==
  LET hasCity(contact) == contact.mailing_city # Empty
      withCity == SelectSeq(FlatContacts, hasCity)
  IN  Dedup([i \in 1..Len(withCity) |-> withCity[i].mailing_city])

\* what the user can make the input hold
FlatInputs == {Empty, <<"a", "u", "s">>, <<"R", "e">>, <<" ", "n", "v">>, <<"z">>}

\* the value of (prev + 1) % 0: not a number
NaNIndex == -1

FlatEmptyResults == [contacts |-> <<>>, cities |-> <<>>]

NoCallback == [kind |-> "none"]

\* lines 54-100: performSearch(term, mode) for a non-empty term, as the
\* values it sets
FlatSearchIn(cs, cityList, term, mode) ==
  LET normalizedTerm == Trim(ToLower(term))
      matches(contact) ==
        \/ Includes(ToLower(contact.first_name \o <<" ">> \o contact.last_name),
                    normalizedTerm)
        \/ Includes(ToLower(contact.account_name), normalizedTerm)
        \/ Includes(ToLower(contact.mailing_city), normalizedTerm)
        \/ Includes(ToLower(contact.mailing_state), normalizedTerm)
      filteredContacts == Take(SelectSeq(cs, matches), 5)
      cityMatches(city) == Includes(ToLower(city), normalizedTerm)
      filteredCities ==
        IF mode = "local" THEN Take(SelectSeq(cityList, cityMatches), 3)
        ELSE IF Len(normalizedTerm) > 1 THEN <<Trim(term)>>
        ELSE <<>>
  IN  [results |-> [contacts |-> filteredContacts, cities |-> filteredCities],
       total |-> Len(filteredContacts) + Len(filteredCities)]

FlatSearch(term, mode) == FlatSearchIn(FlatContacts, allCities, term, mode)

InitFlat ==
  /\ flatOpen = FALSE
  /\ flatTerm = Empty
  /\ flatResults = FlatEmptyResults
  /\ selectedItemIndex = 0
  /\ totalItems = 0
  /\ searchMode = "local"
  /\ flatSelected = NoCallback

\* lines 108-112: the search effect, run after a change of searchTerm or
\* searchMode; it calls performSearch only for a term that is not blank
FlatEffect(term, mode) ==
  IF Trim(term) # Empty
    THEN LET found == FlatSearch(term, mode)
         IN  /\ flatResults' = found.results
             /\ totalItems' = found.total
             /\ selectedItemIndex' = 0
    ELSE UNCHANGED <<flatResults, totalItems, selectedItemIndex>>

\* lines 118-126: Command+K or Ctrl+K; the search effect then sees the empty term
FlatHotkey ==
  /\ flatOpen' = TRUE
  /\ flatTerm' = Empty
  /\ flatResults' = FlatEmptyResults
  /\ UNCHANGED <<selectedItemIndex, totalItems, searchMode, flatSelected>>
  /\ UNCHANGED notFlatVars

\* lines 129-131
FlatEscape ==
  /\ flatOpen
  /\ flatOpen' = FALSE
  /\ UNCHANGED <<flatTerm, flatResults, selectedItemIndex, totalItems, searchMode,
                 flatSelected>>
  /\ UNCHANGED notFlatVars

\* lines 140-148: a mouse press outside the dialog while it is open
FlatClickOutside ==
  /\ flatOpen
  /\ flatOpen' = FALSE
  /\ UNCHANGED <<flatTerm, flatResults, selectedItemIndex, totalItems, searchMode,
                 flatSelected>>
  /\ UNCHANGED notFlatVars

\* line 209 and the effect of lines 108-112
FlatKeystroke(text) ==
  /\ flatOpen
  /\ text # flatTerm
  /\ flatTerm' = text
  /\ FlatEffect(text, searchMode)
  /\ UNCHANGED <<flatOpen, searchMode, flatSelected>>
  /\ UNCHANGED notFlatVars

\* lines 103-105 (Tab, or one of the two buttons) and the effect of lines 108-112
ToggleSearchMode ==
  /\ flatOpen
  /\ searchMode' = IF searchMode = "local" THEN "global" ELSE "local"
  /\ FlatEffect(flatTerm, searchMode')
  /\ UNCHANGED <<flatOpen, flatTerm, flatSelected>>
  /\ UNCHANGED notFlatVars

\* lines 157-159
FlatArrowDown ==
  /\ flatOpen
  /\ selectedItemIndex' =
       IF totalItems = 0 \/ selectedItemIndex = NaNIndex THEN NaNIndex
       ELSE (selectedItemIndex + 1) % totalItems
  /\ UNCHANGED <<flatOpen, flatTerm, flatResults, totalItems, searchMode, flatSelected>>
  /\ UNCHANGED notFlatVars

\* lines 160-162
FlatArrowUp ==
  /\ flatOpen
  /\ selectedItemIndex' =
       IF totalItems = 0 \/ selectedItemIndex = NaNIndex THEN NaNIndex
       ELSE (selectedItemIndex - 1 + totalItems) % totalItems
  /\ UNCHANGED <<flatOpen, flatTerm, flatResults, totalItems, searchMode, flatSelected>>
  /\ UNCHANGED notFlatVars

\* lines 172-186: handleSelectItem(index); an index past the end of an
\* array reads undefined
HandleSelectItem(index) ==
  LET contactsCount == Len(flatResults.contacts)
      cityIndex == index - contactsCount
  IN  /\ flatSelected' =
           IF index # NaNIndex /\ index < contactsCount
             THEN [kind |-> "contact", defined |-> TRUE,
                   arg |-> flatResults.contacts[index + 1]]
           ELSE IF index # NaNIndex /\ cityIndex < Len(flatResults.cities)
             THEN [kind |-> "place", defined |-> TRUE,
                   arg |-> flatResults.cities[cityIndex + 1]]
           ELSE [kind |-> "place", defined |-> FALSE]
      /\ flatOpen' = FALSE
      /\ UNCHANGED <<flatTerm, flatResults, selectedItemIndex, totalItems, searchMode>>
      /\ UNCHANGED notFlatVars

\* lines 163-164
FlatEnter ==
  /\ flatOpen
  /\ totalItems > 0
  /\ HandleSelectItem(selectedItemIndex)

\* lines 226-277: a click on a row of the list, which is rendered while totalItems > 0
FlatClickItem(index) ==
  /\ flatOpen
  /\ totalItems > 0
  /\ index < Len(flatResults.contacts) + Len(flatResults.cities)
  /\ HandleSelectItem(index)

NextFlat ==
  \/ FlatHotkey
  \/ FlatEscape
  \/ FlatClickOutside
  \/ \E text \in FlatInputs : FlatKeystroke(text)
  \/ ToggleSearchMode
  \/ FlatArrowDown
  \/ FlatArrowUp
  \/ FlatEnter
  \/ \E index \in 0..(Len(FlatContacts) + Len(allCities)) : FlatClickItem(index)


(***************************************************************************)
(* CommandKSearch, the version with fuzzy matching and the three sections  *)
(* Contacts, Cities, States (part_001).                                    *)
(***************************************************************************)
\* lines 7-20, cut down to two names and two abbreviations, in the list's order
US_STATES == << <<"O", "h", "i", "o">>, <<"T", "e", "x", "a", "s">>,
                <<"N", "V">>, <<"T", "X">> >>

\* lines 48-53: the scan that advances queryIndex at each matching character
RECURSIVE FuzzyScan(_, _, _, _)
FuzzyScan(text, query, textIndex, queryIndex) ==
  IF textIndex < Len(text) /\ queryIndex < Len(query)
    THEN FuzzyScan(text, query, textIndex + 1,
                   IF text[textIndex + 1] = query[queryIndex + 1]
                     THEN queryIndex + 1 ELSE queryIndex)
    ELSE queryIndex

\* fuzzyMatch without the scan that follows the substring test
fuzzyMatch_SubstringOnly(text, query) ==
  IF text = Empty \/ query = Empty THEN FALSE
  ELSE Includes(ToLower(text), ToLower(query))

\* lines 35-57
fuzzyMatch(text, query) ==
  IF text = Empty \/ query = Empty THEN FALSE
  ELSE LET t == ToLower(text)
           q == ToLower(query)
       IN  IF Includes(t, q) THEN TRUE
           ELSE FuzzyScan(t, q, 0, 0) = Len(q)

\* the contacts prop
NavContacts ==
  << [id |-> 1, first_name |-> <<"A", "n", "n">>, last_name |-> <<"L", "e", "e">>,
      account_name |-> <<"A", "c", "m", "e">>, mailing_city |-> Austin,
      mailing_state |-> <<"T", "X">>],
     [id |-> 2, first_name |-> <<"B", "o">>, last_name |-> <<"R", "a", "y">>,
      account_name |-> Empty, mailing_city |-> Reno, mailing_state |-> <<"N", "V">>] >>

\* lines 77-91: the unique non-empty cities and states of the contacts, sorted
navCities ==
  SortStrings({NavContacts[i].mailing_city : i \in 1..Len(NavContacts)} \ {Empty})

navStates ==
  SortStrings({NavContacts[i].mailing_state : i \in 1..Len(NavContacts)} \ {Empty})

\* what the user can make the input hold
NavInputs == {Empty, <<"a">>, <<"o", "h">>, <<"N", "V">>, <<"r", "e", " ">>}

NavEmptyResults == [contacts |-> <<>>, cities |-> <<>>, states |-> <<>>]

\* lines 130-163: the results for a search term that is not blank
NavSearchIn(cs, cityList, stateList, text) ==
  LET term == Trim(ToLower(text))
      matches(contact) ==
        \/ fuzzyMatch(ToLower(contact.first_name \o <<" ">> \o contact.last_name), term)
        \/ fuzzyMatch(contact.account_name, term)
        \/ fuzzyMatch(contact.mailing_city, term)
        \/ fuzzyMatch(contact.mailing_state, term)
      matchedContacts == Take(SelectSeq(cs, matches), 5)
      lowerMatches(name) == fuzzyMatch(ToLower(name), term)
      matchedCities == Take(SelectSeq(cityList, lowerMatches), 3)
      contactStates == SelectSeq(stateList, lowerMatches)
      additional(state) ==
        /\ ~\E i \in 1..Len(stateList) : ToLower(stateList[i]) = ToLower(state)
        /\ fuzzyMatch(ToLower(state), term)
      additionalStates == SelectSeq(US_STATES, additional)
      matchedStates == Take(Dedup(contactStates \o additionalStates), 3)
  IN  [contacts |-> matchedContacts, cities |-> matchedCities, states |-> matchedStates]

NavSearch(text) == NavSearchIn(NavContacts, navCities, navStates, text)

\* lines 168-175
NavSectionAfter(res, section) ==
  IF res.contacts # <<>> THEN "contacts"
  ELSE IF res.cities # <<>> THEN "cities"
  ELSE IF res.states # <<>> THEN "states"
  ELSE section

InitNav ==
  /\ navOpen = FALSE
  /\ navTerm = Empty
  /\ navResults = NavEmptyResults
  /\ navIndex = -1
  /\ navSection = "contacts"
  /\ navSelected = NoCallback
  /\ navArrowed = FALSE

\* lines 97-102, then the search effect (lines 121-128) on the empty term
NavHotkey ==
  /\ navOpen' = TRUE
  /\ navTerm' = Empty
  /\ navResults' = NavEmptyResults
  /\ navIndex' = -1
  /\ navArrowed' = FALSE
  /\ UNCHANGED <<navSection, navSelected>>
  /\ UNCHANGED notNavVars

\* lines 111-113, 286-291 and 317: Escape, a press outside the dialog, the backdrop
NavClose ==
  /\ navOpen
  /\ navOpen' = FALSE
  /\ UNCHANGED <<navTerm, navResults, navIndex, navSection, navSelected, navArrowed>>
  /\ UNCHANGED notNavVars

\* line 338 and the search effect of lines 121-176
NavKeystroke(text) ==
  /\ navOpen
  /\ text # navTerm
  /\ navTerm' = text
  /\ IF Trim(text) = Empty
       THEN /\ navResults' = NavEmptyResults
            /\ navIndex' = -1
            /\ UNCHANGED navSection
       ELSE /\ navResults' = NavSearch(text)
            /\ navIndex' = -1
            /\ navSection' = NavSectionAfter(NavSearch(text), navSection)
  /\ navArrowed' = FALSE
  /\ UNCHANGED <<navOpen, navSelected>>
  /\ UNCHANGED notNavVars

\* lines 184-220
NavArrowDown ==
  /\ navOpen
  /\ LET totalContactItems == Len(navResults.contacts)
         totalCityItems == Len(navResults.cities)
         totalStateItems == Len(navResults.states)
     IN  IF navSection = "contacts"
           THEN IF navIndex >= totalContactItems - 1
                  THEN IF totalCityItems > 0
                         THEN navSection' = "cities" /\ navIndex' = 0
                       ELSE IF totalStateItems > 0
                         THEN navSection' = "states" /\ navIndex' = 0
                       ELSE UNCHANGED <<navSection, navIndex>>
                ELSE IF totalContactItems > 0
                  THEN /\ navIndex' = Min(navIndex + 1, totalContactItems - 1)
                       /\ UNCHANGED navSection
                ELSE UNCHANGED <<navSection, navIndex>>
         ELSE IF navSection = "cities"
           THEN IF navIndex >= totalCityItems - 1
                  THEN IF totalStateItems > 0
                         THEN navSection' = "states" /\ navIndex' = 0
                         ELSE UNCHANGED <<navSection, navIndex>>
                ELSE IF totalCityItems > 0
                  THEN /\ navIndex' = Min(navIndex + 1, totalCityItems - 1)
                       /\ UNCHANGED navSection
                ELSE UNCHANGED <<navSection, navIndex>>
         ELSE IF totalStateItems > 0
           THEN /\ navIndex' = Min(navIndex + 1, totalStateItems - 1)
                /\ UNCHANGED navSection
         ELSE UNCHANGED <<navSection, navIndex>>
  /\ navArrowed' = TRUE
  /\ UNCHANGED <<navOpen, navTerm, navResults, navSelected>>
  /\ UNCHANGED notNavVars

\* lines 223-258
NavArrowUp ==
  /\ navOpen
  /\ LET totalContactItems == Len(navResults.contacts)
         totalCityItems == Len(navResults.cities)
     IN  IF navSection = "states"
           THEN IF navIndex <= 0
                  THEN IF totalCityItems > 0
                         THEN navSection' = "cities" /\ navIndex' = totalCityItems - 1
                       ELSE IF totalContactItems > 0
                         THEN navSection' = "contacts" /\ navIndex' = totalContactItems - 1
                       ELSE UNCHANGED <<navSection, navIndex>>
                ELSE navIndex' = Max(navIndex - 1, 0) /\ UNCHANGED navSection
         ELSE IF navSection = "cities"
           THEN IF navIndex <= 0
                  THEN IF totalContactItems > 0
                         THEN navSection' = "contacts" /\ navIndex' = totalContactItems - 1
                         ELSE UNCHANGED <<navSection, navIndex>>
                ELSE navIndex' = Max(navIndex - 1, 0) /\ UNCHANGED navSection
         ELSE navIndex' = Max(navIndex - 1, 0) /\ UNCHANGED navSection
  /\ navArrowed' = TRUE
  /\ UNCHANGED <<navOpen, navTerm, navResults, navSelected>>
  /\ UNCHANGED notNavVars

\* the items of a section of the results
NavItems(res, section) ==
  IF section = "contacts" THEN res.contacts
  ELSE IF section = "cities" THEN res.cities
  ELSE res.states

\* lines 261-277: Enter acts only on an existing item under the cursor
NavEnter ==
  /\ navOpen
  /\ navIndex >= 0
  /\ navIndex < Len(NavItems(navResults, navSection))
  /\ navSelected' =
       [kind |-> IF navSection = "contacts" THEN "contact" ELSE "place",
        defined |-> TRUE, arg |-> NavItems(navResults, navSection)[navIndex + 1]]
  /\ navOpen' = FALSE
  /\ UNCHANGED <<navTerm, navResults, navIndex, navSection, navArrowed>>
  /\ UNCHANGED notNavVars

\* lines 381-384, 420-423, 459-462: the pointer enters a row of the list
NavMouseEnter(section, idx) ==
  /\ navOpen
  /\ idx < Len(NavItems(navResults, section))
  /\ navSection' = section
  /\ navIndex' = idx
  /\ UNCHANGED <<navOpen, navTerm, navResults, navSelected, navArrowed>>
  /\ UNCHANGED notNavVars

\* lines 377-380, 416-419, 455-458: a click on a row of the list
NavClickItem(section, idx) ==
  /\ navOpen
  /\ idx < Len(NavItems(navResults, section))
  /\ navSelected' =
       [kind |-> IF section = "contacts" THEN "contact" ELSE "place",
        defined |-> TRUE, arg |-> NavItems(navResults, section)[idx + 1]]
  /\ navOpen' = FALSE
  /\ UNCHANGED <<navTerm, navResults, navIndex, navSection, navArrowed>>
  /\ UNCHANGED notNavVars

NavSections == {"contacts", "cities", "states"}

NextNav ==
  \/ NavHotkey
  \/ NavClose
  \/ \E text \in NavInputs : NavKeystroke(text)
  \/ NavArrowDown
  \/ NavArrowUp
  \/ NavEnter
  \/ \E section \in NavSections, idx \in 0..Len(NavContacts) : NavMouseEnter(section, idx)
  \/ \E section \in NavSections, idx \in 0..Len(NavContacts) : NavClickItem(section, idx)


(***************************************************************************)
(* The orderings of the contact list as functions of their arguments:      *)
(* getOrderedContacts (HomePage.tsx lines 124-158) and the comparator of   *)
(* sidebarContent (lines 544-583).  The map that reports                   *)
(* visibleMapContacts to the second one is not part of the sources, so its *)
(* argument is any list of distinct contacts.                              *)
(***************************************************************************)
York == <<"Y", "o", "r", "k">>

OrderPool ==
  { [id |-> 1, mailing_city |-> <<"B", "a", "y">>, mailing_state |-> <<"T", "X">>],
    [id |-> 2, mailing_city |-> <<"N", "e", "w", " ">> \o York,
     mailing_state |-> <<"N", "Y">>],
    [id |-> 3, mailing_city |-> York, mailing_state |-> <<"P", "A">>],
    [id |-> 4, mailing_city |-> Empty, mailing_state |-> <<"N", "V">>],
    [id |-> 5, mailing_city |-> <<"E", "a", "s", "t", " ">> \o York,
     mailing_state |-> <<"O", "N">>] }

\* the least number of contacts in an argument list, the most visible ones
MinOrdered == 3

MaxVisible == 2

\* the lists of the elements of S, each once
ListsOf(S) ==
  {f \in [1..Cardinality(S) -> S] : \A i, j \in 1..Cardinality(S) : f[i] = f[j] => i = j}

ContactLists ==
  UNION {ListsOf(T) : T \in {U \in SUBSET OrderPool : Cardinality(U) >= MinOrdered}}

VisibleLists(cs) ==
  UNION {ListsOf(T) :
           T \in {U \in SUBSET {cs[i] : i \in 1..Len(cs)} : Cardinality(U) <= MaxVisible}}

OrderPlaces == {Empty, <<"y", "o", "r", "k">>, <<"B", "a", "y">>}

\* Array.prototype.findIndex(c => c.id === contact.id)
FindIndex(visible, contact) ==
  IF \E i \in 1..Len(visible) : visible[i].id = contact.id
    THEN (CHOOSE i \in 1..Len(visible) : visible[i].id = contact.id) - 1
    ELSE -1

\* lines 551-558: the contact's city or state contains the selected place
RelevantToCity(contact, city) ==
  /\ city # Empty
  /\ \/ contact.mailing_city # Empty
          /\ Includes(ToLower(contact.mailing_city), ToLower(city))
     \/ contact.mailing_state # Empty
          /\ Includes(ToLower(contact.mailing_state), ToLower(city))

SidebarCompare_NoRelevance(a, b, visible, city) ==
  LET aVisibleIndex == FindIndex(visible, a)
      bVisibleIndex == FindIndex(visible, b)
  IN  IF aVisibleIndex >= 0 /\ bVisibleIndex >= 0 THEN aVisibleIndex - bVisibleIndex
      ELSE IF aVisibleIndex >= 0 THEN -1
      ELSE IF bVisibleIndex >= 0 THEN 1
      ELSE 0

\* lines 561-582: the comparator, as a negative number, 0 or a positive number
SidebarCompare(a, b, visible, city) ==
  LET aVisibleIndex == FindIndex(visible, a)
      bVisibleIndex == FindIndex(visible, b)
      aIsRelevant == RelevantToCity(a, city)
      bIsRelevant == RelevantToCity(b, city)
  IN  IF aVisibleIndex >= 0 /\ bVisibleIndex >= 0 THEN aVisibleIndex - bVisibleIndex
      ELSE IF aVisibleIndex >= 0 THEN -1
      ELSE IF bVisibleIndex >= 0 THEN 1
      ELSE IF aIsRelevant /\ ~bIsRelevant THEN -1
      ELSE IF ~aIsRelevant /\ bIsRelevant THEN 1
      ELSE 0

\* Array.prototype.sort with that comparator: a stable sort
RECURSIVE SortForSidebar(_, _, _)
SortForSidebar(cs, visible, city) ==
  IF cs = <<>> THEN cs
  ELSE LET r == SortForSidebar(SubSeq(cs, 1, Len(cs) - 1), visible, city)
           x == cs[Len(cs)]
           k == IF \E i \in 1..Len(r) : SidebarCompare(r[i], x, visible, city) > 0
                  THEN (CHOOSE i \in 1..Len(r) :
                          /\ SidebarCompare(r[i], x, visible, city) > 0
                          /\ \A j \in 1..(i - 1) :
                               SidebarCompare(r[j], x, visible, city) <= 0) - 1
                  ELSE Len(r)
       IN  SubSeq(r, 1, k) \o <<x>> \o SubSeq(r, k + 1, Len(r))

\* lines 544-583
SidebarOrder(cs, visible, city) ==
  IF city # Empty \/ Len(visible) > 0 THEN SortForSidebar(cs, visible, city) ELSE cs

\* no call is in progress: the empty contact list
OrderIdle ==
  /\ orderContacts = <<>>
  /\ orderVisible = <<>>
  /\ orderCity = Empty
  /\ orderedFirst = Null
  /\ orderedSecond = Null

InitOrder ==
  /\ orderContacts \in ContactLists
  /\ orderVisible \in VisibleLists(orderContacts)
  /\ orderCity \in OrderPlaces
  /\ orderedFirst = Null
  /\ orderedSecond = Null

\* lines 124-158
GetOrderedContacts ==
  /\ orderedFirst = Null
  /\ orderedFirst' = Some(OrderedContacts(orderContacts, orderVisible, orderCity))
  /\ UNCHANGED <<orderContacts, orderVisible, orderCity, orderedSecond>>
  /\ UNCHANGED notOrderVars

\* lines 544-583
SidebarContent ==
  /\ orderedSecond = Null
  /\ orderedSecond' = Some(SidebarOrder(orderContacts, orderVisible, orderCity))
  /\ UNCHANGED <<orderContacts, orderVisible, orderCity, orderedFirst>>
  /\ UNCHANGED notOrderVars

NextOrder ==
  \/ GetOrderedContacts
  \/ SidebarContent


(***************************************************************************)
(* The selection handlers of HomePage (lines 82-117 and 328; the later     *)
(* version's are at lines 464-494).  The search dialog, the contact list   *)
(* and the map call them with a place name or a contact.                   *)
(***************************************************************************)
\* the place names a collaborator can pass to handleCitySelect
PlaceNames == {York, <<"B", "a", "y">>, Reno, Austin}

InitSelect ==
  /\ chosenCity = Empty
  /\ selectedContact = Null
  /\ showSidebar = TRUE
  /\ narrowWindow \in BOOLEAN

\* lines 82-92
HandleCitySelect(city) ==
  /\ chosenCity' = city
  /\ selectedContact' = Null
  /\ showSidebar' = IF narrowWindow THEN FALSE ELSE showSidebar
  /\ UNCHANGED narrowWindow
  /\ UNCHANGED notSelectVars

\* lines 94-101
HandleContactSelect(contact) ==
  /\ selectedContact' = Some(contact)
  /\ showSidebar' = IF narrowWindow THEN FALSE ELSE showSidebar
  /\ UNCHANGED <<chosenCity, narrowWindow>>
  /\ UNCHANGED notSelectVars

\* lines 103-105
ToggleSidebar ==
  /\ showSidebar' = ~showSidebar
  /\ UNCHANGED <<chosenCity, selectedContact, narrowWindow>>
  /\ UNCHANGED notSelectVars

\* lines 108-117
OpenMap ==
  /\ showSidebar' = FALSE
  /\ chosenCity' = Empty
  /\ selectedContact' = Null
  /\ UNCHANGED narrowWindow
  /\ UNCHANGED notSelectVars

\* line 328: the button that clears the place filter, shown while a place is selected
ClearCity ==
  /\ chosenCity # Empty
  /\ chosenCity' = Empty
  /\ UNCHANGED <<selectedContact, showSidebar, narrowWindow>>
  /\ UNCHANGED notSelectVars

\* the browser window is resized across the 768 px threshold
ResizeWindow ==
  /\ narrowWindow' = ~narrowWindow
  /\ UNCHANGED <<chosenCity, selectedContact, showSidebar>>
  /\ UNCHANGED notSelectVars

NextSelect ==
  \/ \E city \in PlaceNames : HandleCitySelect(city)
  \/ \E contact \in OrderPool : HandleContactSelect(contact)
  \/ ToggleSidebar
  \/ OpenMap
  \/ ClearCity
  \/ ResizeWindow


(***************************************************************************)
(* fuzzyMatch (part_001 lines 35-57) as a function of its two arguments.   *)
(***************************************************************************)
MaxTextLen == 3
MaxQueryLen == 2

FuzzyChars == {"a", "b", "A"}

StringsUpTo(n) == UNION {[1..k -> FuzzyChars] : k \in 0..n}

FuzzyIdle ==
  /\ fuzzyText = Empty
  /\ fuzzyQuery = Empty
  /\ fuzzyResult = Null

InitFuzzy ==
  /\ fuzzyText \in StringsUpTo(MaxTextLen)
  /\ fuzzyQuery \in StringsUpTo(MaxQueryLen)
  /\ fuzzyResult = Null

FuzzyCall ==
  /\ fuzzyResult = Null
  /\ fuzzyResult' = Some(fuzzyMatch(fuzzyText, fuzzyQuery))
  /\ UNCHANGED <<fuzzyText, fuzzyQuery>>
  /\ UNCHANGED notFuzzyVars

NextFuzzy == FuzzyCall

(***************************************************************************)
(* findNearbyCities (part_013 lines 60-83) as a function of its arguments. *)
(* The places lie on the meridian 10, but for one that is 1819 miles east. *)
(***************************************************************************)
MaxCandidates == 3

Place(name, lon, lat) == [city |-> name, coordinates |-> <<lon, lat>>]

NearPlaces ==
  { Place(<<"A">>, 10, 100), Place(<<"B">>, 10, 159), Place(<<"C">>, 10, 160),
    Place(<<"D">>, 10, 161), Place(<<"E">>, 10, 41), Place(<<"F">>, 1829, 100) }

NearTargets == {Place(<<"A">>, 10, 100), Place(<<"B">>, 10, 159)}

\* the third argument: omitted, or a radius in miles
NearRadii == {Null, Some(1)}

CandidateLists ==
  UNION {ListsOf(T) : T \in {U \in SUBSET NearPlaces : Cardinality(U) <= MaxCandidates}}

NearIdle ==
  /\ nearTarget = Place(<<"A">>, 10, 100)
  /\ nearLocations = <<>>
  /\ nearRadius = Null
  /\ nearResult = Null

InitNear ==
  /\ nearTarget \in NearTargets
  /\ nearLocations \in CandidateLists
  /\ nearRadius \in NearRadii
  /\ nearResult = Null

\* line 63: the default value of radiusMiles
RadiusMiles(arg) == IF arg = Null THEN CITY_PROXIMITY_RADIUS ELSE arg.value

NearCall ==
  /\ nearResult = Null
  /\ nearResult' = Some(findNearbyCities(nearTarget, nearLocations, RadiusMiles(nearRadius)))
  /\ UNCHANGED <<nearTarget, nearLocations, nearRadius>>
  /\ UNCHANGED notNearVars

NextNear == NearCall


(***************************************************************************)
(* The CSV import: parseCSV (src/lib/csvUtils.ts, and the version with     *)
(* warnings in part_011) and CSVUploader.processFile (part_008 34-88).     *)
(* A row is the pair of its 'First Name' and 'Last Name' cells; a missing  *)
(* cell is the empty string.                                               *)
(***************************************************************************)
MaxRows == 2

CsvCells == {Empty, <<"A", "n", "n">>}

CsvRows == [first : CsvCells, last : CsvCells]

CsvFiles == UNION {[1..n -> CsvRows] : n \in 0..MaxRows}

DigitChars == <<"0", "1", "2", "3", "4", "5", "6", "7", "8", "9">>

\* `Unknown-${rowIndex}` and `Contact-${rowIndex}`
UnknownName(rowIndex) == <<"U", "n", "k", "n", "o", "w", "n", "-", DigitChars[rowIndex + 1]>>

ContactName(rowIndex) == <<"C", "o", "n", "t", "a", "c", "t", "-", DigitChars[rowIndex + 1]>>

RowMissingFields(rowIndex) == [kind |-> "missing required fields", row |-> rowIndex]

\* csvUtils.ts lines 18-47: the step callback on the rows up to n
RECURSIVE StepRows(_, _)
StepRows(file, n) ==
  IF n = 0 THEN [contacts |-> <<>>, errors |-> <<>>, warnings |-> <<>>]
  ELSE LET before == StepRows(file, n - 1)
           row == file[n]
       IN  IF row.first = Empty \/ row.last = Empty
             THEN [before EXCEPT !.errors = Append(@, RowMissingFields(n))]
             ELSE [before EXCEPT
                     !.contacts = Append(@, [first_name |-> row.first, last_name |-> row.last])]

\* part_011 lines 79-107: the step callback of the version with warnings
RECURSIVE StepRowsWithWarnings(_, _)
StepRowsWithWarnings(file, n) ==
  IF n = 0 THEN [contacts |-> <<>>, errors |-> <<>>, warnings |-> <<>>]
  ELSE LET before == StepRowsWithWarnings(file, n - 1)
           row == file[n]
           warned == IF row.first = Empty \/ row.last = Empty
                       THEN Append(before.warnings, RowMissingFields(n))
                       ELSE before.warnings
       IN  [before EXCEPT
              !.warnings = warned,
              !.contacts = Append(@,
                [first_name |-> IF row.first = Empty THEN UnknownName(n) ELSE row.first,
                 last_name |-> IF row.last = Empty THEN ContactName(n) ELSE row.last])]

ParserVersions == {"csvUtils", "warnings"}

\* parseCSV: the rows up to `read` are stepped through; papaError is the error callback
parseCSV(version, file, read, papaError) ==
  LET stepped == IF version = "csvUtils" THEN StepRows(file, read)
                 ELSE StepRowsWithWarnings(file, read)
  IN  IF papaError
        THEN [stepped EXCEPT !.errors = Append(@, [kind |-> "CSV parsing error"])]
        ELSE stepped

InitImport ==
  /\ csvFile = <<>>
  /\ parserUsed = "csvUtils"
  /\ importPc = "idle"
  /\ isUploading = FALSE
  /\ uploadProgress = 0
  /\ uploadErrors = <<>>
  /\ parseWarnings = <<>>
  /\ uploadBody = Null

\* part_008 lines 34-47, up to the await of parseCSV
ProcessFile(file, isCsv, version) ==
  /\ importPc = "idle"
  /\ IF ~isCsv
       THEN /\ uploadErrors' = <<[kind |-> "Please upload a CSV file"]>>
            /\ UNCHANGED <<csvFile, parserUsed, importPc, isUploading, uploadProgress,
                           parseWarnings, uploadBody>>
       ELSE /\ isUploading' = TRUE
            /\ uploadErrors' = <<>>
            /\ uploadProgress' = 10
            /\ csvFile' = file
            /\ parserUsed' = version
            /\ importPc' = "parsing"
            /\ parseWarnings' = <<>>
            /\ uploadBody' = Null
  /\ UNCHANGED notImportVars

\* part_008 lines 47-69: parseCSV resolves and processFile goes on to the upload
ParseSettles(read, papaError) ==
  /\ importPc = "parsing"
  /\ LET parseResult == parseCSV(parserUsed, csvFile, read, papaError)
     IN  /\ parseWarnings' = parseResult.warnings
         /\ uploadProgress' = 50
         /\ IF Len(parseResult.errors) > 0
              THEN /\ uploadErrors' = parseResult.errors
                   /\ isUploading' = FALSE
                   /\ importPc' = "idle"
                   /\ UNCHANGED uploadBody
              ELSE IF Len(parseResult.contacts) = 0
                THEN /\ uploadErrors' = <<[kind |-> "No valid contacts found in CSV"]>>
                     /\ isUploading' = FALSE
                     /\ importPc' = "idle"
                     /\ UNCHANGED uploadBody
                ELSE /\ uploadBody' = Some(parseResult.contacts)
                     /\ importPc' = "uploading"
                     /\ UNCHANGED <<uploadErrors, isUploading>>
  /\ UNCHANGED <<csvFile, parserUsed>>
  /\ UNCHANGED notImportVars

\* the parse runs to the end of the file
ParseCompletes == ParseSettles(Len(csvFile), FALSE)

\* Papa calls the error callback after some of the rows
ParseFails == \E read \in 0..Len(csvFile) : ParseSettles(read, TRUE)

UploadOutcomes == {"ok", "rejected", "threw"}

\* part_008 lines 71-87
UploadResponds(outcome) ==
  /\ importPc = "uploading"
  /\ uploadProgress' = IF outcome = "ok" THEN 100 ELSE IF outcome = "rejected" THEN 90
                       ELSE uploadProgress
  /\ uploadErrors' = IF outcome = "ok" THEN uploadErrors
                     ELSE IF outcome = "rejected"
                       THEN <<[kind |-> "Failed to upload contacts"]>>
                       ELSE <<[kind |-> "An unknown error occurred"]>>
  /\ isUploading' = FALSE
  /\ importPc' = "idle"
  /\ UNCHANGED <<csvFile, parserUsed, parseWarnings, uploadBody>>
  /\ UNCHANGED notImportVars

NextImport ==
  \/ \E file \in CsvFiles, isCsv \in BOOLEAN, version \in ParserVersions :
       ProcessFile(file, isCsv, version)
  \/ ParseCompletes
  \/ ParseFails
  \/ \E outcome \in UploadOutcomes : UploadResponds(outcome)

(***************************************************************************)
(* The place types of a geocoding request: geocodeCity in the map          *)
(* (MapboxMap.tsx 173-183) and GET /api/geocode (part_009 86-101).  Both   *)
(* hold the same US_STATES list.                                           *)
(***************************************************************************)
\* Array.prototype.includes on US_STATES
IsUSState(city) == \E i \in 1..Len(US_STATES) : US_STATES[i] = city

StateLetters == {"T", "X", "t", "x"}

\* what can be asked for: two-letter words, state names in two spellings, a city
TypesQueries ==
  [1..2 -> StateLetters]
    \cup {<<"T", "e", "x", "a", "s">>, <<"t", "e", "x", "a", "s">>, <<"O", "H", "I", "O">>,
          <<"O", "h", "i", "o">>, Austin, Reno}

RequestFor(city, global) ==
  [types |-> IF IsUSState(city) THEN "region" ELSE "place,locality,region",
   country |-> IF global THEN "" ELSE "us,ca,gb,de,fr"]

TypesIdle ==
  /\ typesQuery = Empty
  /\ typesGlobal = FALSE
  /\ clientRequest = Null
  /\ routeRequest = Null

InitTypes ==
  /\ typesQuery \in TypesQueries
  /\ typesGlobal \in BOOLEAN
  /\ clientRequest = Null
  /\ routeRequest = Null

\* MapboxMap.tsx lines 173-183
ClientBuildsUrl ==
  /\ clientRequest = Null
  /\ clientRequest' = Some(RequestFor(typesQuery, typesGlobal))
  /\ UNCHANGED <<typesQuery, typesGlobal, routeRequest>>
  /\ UNCHANGED notTypesVars

\* part_009 lines 86-101
RouteBuildsUrl ==
  /\ routeRequest = Null
  /\ routeRequest' = Some(RequestFor(typesQuery, typesGlobal))
  /\ UNCHANGED <<typesQuery, typesGlobal, clientRequest>>
  /\ UNCHANGED notTypesVars

NextTypes == ClientBuildsUrl \/ RouteBuildsUrl

(***************************************************************************)
(* The in-view marks of ContactsList (ContactsList.tsx 111-167).  The list *)
(* receives the contacts as the page orders them: the visible contacts     *)
(* first, then the others.                                                 *)
(***************************************************************************)
ListPool ==
  { [id |-> 1, latitude |-> 30, longitude |-> 97],
    [id |-> 2, latitude |-> 30, longitude |-> 97],
    [id |-> 3, latitude |-> 39, longitude |-> 119],
    [id |-> 4, latitude |-> 40, longitude |-> 74] }

OrderedLists == UNION {ListsOf(T) : T \in SUBSET ListPool}

\* lines 119-146: the loop from position i (counted from 1) on; the contact
\* before i is the one lastLat and lastLng come from
RECURSIVE CountInView(_, _, _, _)
CountInView(cs, i, lastInView, visibleCount) ==
  IF i > Len(cs) THEN visibleCount
  ELSE LET changed == /\ i > 1
                      /\ lastInView
                      /\ \/ cs[i].latitude # cs[i - 1].latitude
                         \/ cs[i].longitude # cs[i - 1].longitude
           prevGroupCount ==
             IF i > 1
               THEN Cardinality({j \in 1..(i - 1) :
                                   /\ cs[j].latitude = cs[i - 1].latitude
                                   /\ cs[j].longitude = cs[i - 1].longitude})
               ELSE 0
           inView == IF changed /\ prevGroupCount >= 3 THEN FALSE ELSE lastInView
       IN  CountInView(cs, i + 1, inView, IF inView THEN visibleCount + 1 ELSE visibleCount)

\* lines 111-154, with index counted from 1
isInViewport(cs, index) ==
  LET counted == CountInView(cs, 1, TRUE, 0)
      visibleCount == IF counted < 5 /\ Len(cs) > 10
                        THEN Min(10, Len(cs) \div 5)
                        ELSE counted
  IN  index <= visibleCount

\* lines 157-166
getViewportCounts(cs) ==
  [inViewport |-> Cardinality({i \in 1..Len(cs) : isInViewport(cs, i)}), total |-> Len(cs)]

ListIdle ==
  /\ listContacts = <<>>
  /\ listVisible = <<>>
  /\ listMarks = Null

InitList ==
  /\ listContacts \in OrderedLists
  /\ \E k \in 0..Len(listContacts) : listVisible = SubSeq(listContacts, 1, k)
  /\ listMarks = Null

\* the list renders: a mark for each row and the 'in current map view' figure
RenderList ==
  /\ listMarks = Null
  /\ listMarks' = Some([marked |-> [i \in 1..Len(listContacts) |->
                                      isInViewport(listContacts, i)],
                        counts |-> getViewportCounts(listContacts)])
  /\ UNCHANGED <<listContacts, listVisible>>
  /\ UNCHANGED notListVars

NextList == RenderList

(***************************************************************************)
(* calculateDistance (part_013 lines 19-43) as a function of two points.   *)
(***************************************************************************)
DistLongitudes == {-4, 0, 100}

DistLatitudes == {-3, 0, 60}

DistPoints == DistLongitudes \X DistLatitudes

DistIdle ==
  /\ distFrom = <<0, 0>>
  /\ distTo = <<0, 0>>
  /\ distMeasured = Null

InitDist ==
  /\ distFrom \in DistPoints
  /\ distTo \in DistPoints
  /\ distMeasured = Null

MeasureDistance ==
  /\ distMeasured = Null
  /\ distMeasured' =
       Some([there |-> calculateDistance(distFrom[2], distFrom[1], distTo[2], distTo[1]),
             back |-> calculateDistance(distTo[2], distTo[1], distFrom[2], distFrom[1]),
             self |-> calculateDistance(distFrom[2], distFrom[1], distFrom[2], distFrom[1])])
  /\ UNCHANGED <<distFrom, distTo>>
  /\ UNCHANGED notDistVars

NextDist == MeasureDistance

(***************************************************************************)
(* POST /api/upload (app/api/upload/route.ts lines 6-89, and the earlier   *)
(* version in part_009 lines 235-297) with geocodeContact / geocodeAddress *)
(* (part_012 lines 28-90).                                                 *)
(***************************************************************************)
MaxUpload == 2

AddressA == <<"1", " ", "A", " ", "S", "t">>

UploadAddresses == {Empty, AddressA}

\* the coordinates of a submitted contact, latitude then longitude: each
\* absent or null, zero, or another number
UploadCoords == {<<Null, Null>>, <<Some(40), Null>>, <<Some(0), Some(40)>>,
                 <<Some(40), Some(40)>>}

UploadShapes ==
  {[address |-> a, latitude |-> c[1], longitude |-> c[2]] :
     a \in UploadAddresses, c \in UploadCoords}

UploadLists == UNION {[1..n -> UploadShapes] : n \in 0..MaxUpload}

RouteVersions == {"current", "earlier"}

\* what the geocoding service can answer, and what an upsert can do
GeocodeOutcomes == {"found", "notFound", "failed"}

UpsertOutcomes == {"ok", "error", "throws"}

\* the coordinates the service finds for the addresses of the model
FoundResult == [latitude |-> Some(12), longitude |-> Some(34)]

NoResult == [latitude |-> Null, longitude |-> Null]

\* !x of JavaScript for a coordinate: undefined, null and 0 are falsy
Falsy(coordinate) == coordinate = Null \/ coordinate = Some(0)

\* route.ts line 39: the contact is geocoded
NeedsGeocoding(contact) == Falsy(contact.latitude) \/ Falsy(contact.longitude)

\* part_012 lines 40-48: geocodeAddress answers without a request: Some(the
\* result) for no address (the route's current version only) or a cached
\* address, Null when it has to ask the service
AnswerAtOnce(version, cache, address) ==
  IF version = "current" /\ Trim(address) = Empty THEN Some(NoResult)
  ELSE cache[address]

\* part_012 lines 50-89: the result of geocodeAddress after the service
\* answered, and the cache it leaves
GeocodeFinish(cache, address, outcome) ==
  IF outcome = "failed" THEN [result |-> NoResult, cache |-> cache]
  ELSE LET result == IF outcome = "found" THEN FoundResult ELSE NoResult
       IN  [result |-> result, cache |-> [cache EXCEPT ![address] = Some(result)]]

\* route.ts lines 48-49
WithCoordinates(cs, i, result) ==
  [cs EXCEPT ![i].latitude = result.latitude, ![i].longitude = result.longitude]

\* the counting of lines 64-75 with a thrown exception left uncounted
CountOutcome_ThrowUncounted(res, outcome) ==
  IF outcome = "ok" THEN [res EXCEPT !.successful = @ + 1]
  ELSE IF outcome = "error" THEN [res EXCEPT !.failed = @ + 1, !.errors = @ + 1]
  ELSE [res EXCEPT !.errors = @ + 1]

\* route.ts lines 64-75: the results after an upsert returned without an
\* error, returned an error, or threw
CountOutcome(res, outcome) ==
  IF outcome = "ok" THEN [res EXCEPT !.successful = @ + 1]
  ELSE [res EXCEPT !.failed = @ + 1, !.errors = @ + 1]

InitUpload ==
  /\ upPc = "idle"
  /\ upVersion = "current"
  /\ upContacts = <<>>
  /\ upIndex = 0
  /\ upResults = [successful |-> 0, failed |-> 0, errors |-> 0]
  /\ upCache = [address \in UploadAddresses |-> Null]
  /\ upTable = <<>>
  /\ upResponse = Null

\* route.ts lines 36-63 and 78-81: the loop reaches position i and runs to
\* its next await, or past the last contact to the response
LoopFrom(version, cs, i, res) ==
  IF i > Len(cs)
    THEN /\ upPc' = "done"
         /\ upContacts' = cs
         /\ upIndex' = i
         /\ upResponse' = Some([status |-> 200, processed |-> Len(cs),
                                successful |-> res.successful, failed |-> res.failed,
                                errors |-> res.errors])
  ELSE LET atOnce == AnswerAtOnce(version, upCache, cs[i].address)
       IN  /\ upIndex' = i
           /\ upResponse' = Null
           /\ IF ~NeedsGeocoding(cs[i])
                THEN upPc' = "upserting" /\ upContacts' = cs
              ELSE IF atOnce # Null
                THEN upPc' = "upserting" /\ upContacts' = WithCoordinates(cs, i, atOnce.value)
              ELSE upPc' = "geocoding" /\ upContacts' = cs

\* route.ts lines 6-33: a request arrives
ReceiveUpload(version, cs) ==
  /\ upPc = "idle"
  /\ upVersion' = version
  /\ upResults' = [successful |-> 0, failed |-> 0, errors |-> 0]
  /\ upTable' = <<>>
  /\ IF cs = <<>>
       THEN /\ upPc' = "done"
            /\ upContacts' = cs
            /\ upIndex' = 0
            /\ upResponse' = Some([status |-> 400, processed |-> 0, successful |-> 0,
                                   failed |-> 0, errors |-> 0])
     ELSE IF version = "current"
       THEN /\ upPc' = "clearing"
            /\ upContacts' = cs
            /\ upIndex' = 0
            /\ upResponse' = Null
     ELSE LoopFrom(version, cs, 1, upResults')
  /\ UNCHANGED upCache
  /\ UNCHANGED notUploadVars

\* route.ts lines 24-33: the delete of the existing contacts returns
ClearReturns(deleteError) ==
  /\ upPc = "clearing"
  /\ upResults' = IF deleteError THEN [upResults EXCEPT !.errors = @ + 1] ELSE upResults
  /\ LoopFrom(upVersion, upContacts, 1, upResults')
  /\ UNCHANGED <<upVersion, upCache, upTable>>
  /\ UNCHANGED notUploadVars

\* route.ts lines 40-53: the geocoding service answers for the contact
GeocodeReturns(outcome) ==
  /\ upPc = "geocoding"
  /\ LET f == GeocodeFinish(upCache, upContacts[upIndex].address, outcome)
     IN  /\ upCache' = f.cache
         /\ upContacts' = WithCoordinates(upContacts, upIndex, f.result)
  /\ upPc' = "upserting"
  /\ UNCHANGED <<upVersion, upIndex, upResults, upTable, upResponse>>
  /\ UNCHANGED notUploadVars

\* route.ts lines 56-76: the upsert returns, with an error or without, or
\* throws; the loop goes on with the next contact
UpsertReturns(outcome) ==
  /\ upPc = "upserting"
  /\ upResults' = CountOutcome(upResults, outcome)
  /\ upTable' = IF outcome = "ok" THEN Append(upTable, upContacts[upIndex]) ELSE upTable
  /\ LoopFrom(upVersion, upContacts, upIndex + 1, upResults')
  /\ UNCHANGED <<upVersion, upCache>>
  /\ UNCHANGED notUploadVars

\* the response has been sent and the request is over; the module, with its
\* cache, serves the next request
UploadDone ==
  /\ upPc = "done"
  /\ upPc' = "idle"
  /\ upVersion' = "current"
  /\ upContacts' = <<>>
  /\ upIndex' = 0
  /\ upResults' = [successful |-> 0, failed |-> 0, errors |-> 0]
  /\ upTable' = <<>>
  /\ upResponse' = Null
  /\ UNCHANGED upCache
  /\ UNCHANGED notUploadVars

NextUpload ==
  \/ \E version \in RouteVersions, cs \in UploadLists : ReceiveUpload(version, cs)
  \/ \E deleteError \in BOOLEAN : ClearReturns(deleteError)
  \/ \E outcome \in GeocodeOutcomes : GeocodeReturns(outcome)
  \/ \E outcome \in UpsertOutcomes : UpsertReturns(outcome)
  \/ UploadDone

(***************************************************************************)
(* The three search evaluations (part_001 lines 130-163, part_002 lines    *)
(* 183-216, part_003 lines 60-102) over contact lists long enough for the  *)
(* slices to cut.                                                          *)
(***************************************************************************)
MaxCapContacts == 11

MaxCapPlaces == 7

CapLetters == <<"a", "b", "c", "d", "e", "f", "g", "h", "i", "j">>

\* contact k of a list whose contacts live in `places` different cities and
\* states; every city and state name holds an x
CapContact(k, places) ==
  [id |-> k, first_name |-> <<"A", "l">>, last_name |-> <<"K", "o">>,
   account_name |-> Empty,
   mailing_city |-> <<"X", CapLetters[(k % places) + 1]>>,
   mailing_state |-> <<"x", "s", CapLetters[(k % places) + 1]>>]

CapLists ==
  {[k \in 1..n |-> CapContact(k, places)] :
     n \in 0..MaxCapContacts, places \in 1..MaxCapPlaces}

CapQueries == {<<"x">>, <<"a", "l">>, <<"X", "b", " ">>, <<"q">>}

\* the cities and states memos of the dialogs
CapCities(cs) == SortStrings({cs[i].mailing_city : i \in 1..Len(cs)} \ {Empty})

CapStates(cs) == SortStrings({cs[i].mailing_state : i \in 1..Len(cs)} \ {Empty})

\* cityLocations once every city has been geocoded; the cities of the model
\* lie at one point
CapLocations(cs) ==
  LET cityList == CapCities(cs)
  IN  [i \in 1..Len(cityList) |->
         [key |-> cityList[i],
          value |-> [city |-> cityList[i], coordinates |-> <<20, 10>>]]]

CapsIdle ==
  /\ capsContacts = <<>>
  /\ capsQuery = Empty
  /\ capsFuzzy = Null
  /\ capsProximity = Null
  /\ capsFlat = Null

InitCaps ==
  /\ capsContacts \in CapLists
  /\ capsQuery \in CapQueries
  /\ capsFuzzy = Null
  /\ capsProximity = Null
  /\ capsFlat = Null

\* part_001 lines 130-163
EvaluateFuzzy ==
  /\ capsFuzzy = Null
  /\ capsFuzzy' = Some(NavSearchIn(capsContacts, CapCities(capsContacts),
                                   CapStates(capsContacts), capsQuery))
  /\ UNCHANGED <<capsContacts, capsQuery, capsProximity, capsFlat>>
  /\ UNCHANGED notCapsVars

\* part_002 lines 132-216, with a known city or nothing to search around
EvaluateProximity ==
  /\ capsProximity = Null
  /\ LET term == QueryTerm(capsQuery)
         cityList == CapCities(capsContacts)
     IN  capsProximity' =
           Some(SearchResultsIn(capsContacts, cityList, term,
                                ProximityCenterIn(cityList, term),
                                CapLocations(capsContacts)))
  /\ UNCHANGED <<capsContacts, capsQuery, capsFuzzy, capsFlat>>
  /\ UNCHANGED notCapsVars

\* part_003 lines 60-102
EvaluateFlat(mode) ==
  /\ capsFlat = Null
  /\ capsFlat' = Some(FlatSearchIn(capsContacts, CapCities(capsContacts), capsQuery,
                                   mode).results)
  /\ UNCHANGED <<capsContacts, capsQuery, capsFuzzy, capsProximity>>
  /\ UNCHANGED notCapsVars

NextCaps ==
  \/ EvaluateFuzzy
  \/ EvaluateProximity
  \/ \E mode \in {"local", "global"} : EvaluateFlat(mode)

(***************************************************************************)
(* The markers of MapboxMap (MapboxMap.tsx): addCityMarker (lines          *)
(* 101-159), geocodeAndFlyToCity (lines 347-426), the effects of lines     *)
(* 460-479, initializeMap (lines 482-552) and addMarkers (lines 615-618    *)
(* and 743-746).  A marker is an element attached to one map; removing the *)
(* map removes the elements attached to it.                                *)
(***************************************************************************)
MaxFlights == 2

\* the number of contacts that get a marker
MarkedContacts == 1

MarkerPlaces == {Reno, Austin}

IdleFlight == [pc |-> "idle", city |-> Empty]

TrackedIds(tracked) == {tracked[i].id : i \in 1..Len(tracked)}

\* the smallest id no marker of the component carries
FreshId(used) == CHOOSE id \in 1..(Cardinality(used) + 1) :
                   id \notin used /\ \A other \in 1..(id - 1) : other \in used

\* the class test inverted
IsCityMarker_Inverted(marker) == marker.kind # "city"

\* lines 106-107: el.classList.contains('city-marker')
IsCityMarker(marker) == marker.kind = "city"

\* lines 105-112 and 149-156: the tracked city markers are removed, the new
\* one is attached to the map and tracked
addCityMarker(tracked, onMap, city) ==
  LET isContact(marker) == ~IsCityMarker(marker)
      kept == SelectSeq(tracked, isContact)
      removed == TrackedIds(tracked) \ TrackedIds(kept)
      id == FreshId(TrackedIds(tracked) \cup onMap)
  IN  [tracked |-> Append(kept, [id |-> id, kind |-> "city", city |-> city]),
       onMap |-> (onMap \ removed) \cup {id}]

\* lines 615-618 and 743-746: every tracked marker is removed and the
\* contacts get new markers on the map
RECURSIVE ContactMarkers(_, _)
ContactMarkers(n, used) ==
  IF n = 0 THEN <<>>
  ELSE LET id == FreshId(used)
       IN  <<[id |-> id, kind |-> "contact", city |-> Empty]>>
             \o ContactMarkers(n - 1, used \cup {id})

addMarkers(tracked, onMap) ==
  LET left == onMap \ TrackedIds(tracked)
      fresh == ContactMarkers(MarkedContacts, left)
  IN  [tracked |-> fresh, onMap |-> left \cup TrackedIds(fresh)]

\* the component is mounted: the first initializeMap timer is pending
InitMarkers ==
  /\ mkCity = Empty
  /\ mkTimer = TRUE
  /\ mkMap = "none"
  /\ mkTracked = <<>>
  /\ mkOnMap = {}
  /\ mkFlights = [i \in 1..MaxFlights |-> IdleFlight]

FreeFlights == {i \in 1..MaxFlights : mkFlights[i].pc = "idle"}

\* lines 347-361: geocodeAndFlyToCity up to its await
StartFlight(city) ==
  IF city = Empty \/ mkMap = "none"
    THEN UNCHANGED mkFlights
    ELSE /\ FreeFlights # {}
         /\ LET i == CHOOSE j \in FreeFlights : \A k \in FreeFlights : j <= k
            IN  mkFlights' = [mkFlights EXCEPT ![i] = [pc |-> "await", city |-> city]]

\* lines 460-479: a new selectedCity restarts the initializeMap timer and is
\* geocoded
MarkerSelectCity(city) ==
  /\ city # mkCity
  /\ mkCity' = city
  /\ mkTimer' = TRUE
  /\ StartFlight(city)
  /\ UNCHANGED <<mkMap, mkTracked, mkOnMap>>
  /\ UNCHANGED notMarkerVars

\* lines 482-552: the timer fires; the old map is removed and a new one created
MarkerInitializeMap ==
  /\ mkTimer
  /\ mkTimer' = FALSE
  /\ mkMap' = "loading"
  /\ mkOnMap' = {}
  /\ UNCHANGED <<mkCity, mkTracked, mkFlights>>
  /\ UNCHANGED notMarkerVars

\* lines 521-540: 'load': the contact markers are rebuilt and the selected
\* city is geocoded (lastGeocodedCity.current is never assigned)
MarkerMapLoad ==
  /\ mkMap = "loading"
  /\ mkMap' = "loaded"
  /\ LET rebuilt == addMarkers(mkTracked, mkOnMap)
     IN  mkTracked' = rebuilt.tracked /\ mkOnMap' = rebuilt.onMap
  /\ StartFlight(mkCity)
  /\ UNCHANGED <<mkCity, mkTimer>>
  /\ UNCHANGED notMarkerVars

\* lines 361-425: geocodeCity returned, with coordinates or with null
FlightReturns(i, found) ==
  /\ mkFlights[i].pc = "await"
  /\ mkFlights' = [mkFlights EXCEPT ![i] = IdleFlight]
  /\ IF found /\ mkMap # "none"
       THEN LET placed == addCityMarker(mkTracked, mkOnMap, mkFlights[i].city)
            IN  mkTracked' = placed.tracked /\ mkOnMap' = placed.onMap
       ELSE UNCHANGED <<mkTracked, mkOnMap>>
  /\ UNCHANGED <<mkCity, mkTimer, mkMap>>
  /\ UNCHANGED notMarkerVars

NextMarkers ==
  \/ \E city \in MarkerPlaces \cup {Empty} : MarkerSelectCity(city)
  \/ MarkerInitializeMap
  \/ MarkerMapLoad
  \/ \E i \in 1..MaxFlights, found \in BOOLEAN : FlightReturns(i, found)

\* the state machines start as constructed
InitBase ==
  InitGeo /\ InitCity /\ InitFly /\ InitSearch /\ InitPage /\ InitFlat /\ InitNav
    /\ InitImport
    /\ InitUpload
    /\ InitMarkers

\* the page as mounted in a wide window
SelectIdle ==
  /\ chosenCity = Empty
  /\ selectedContact = Null
  /\ showSidebar = TRUE
  /\ narrowWindow = FALSE

\* the functions before they are called
PureIdle == OrderIdle /\ FuzzyIdle /\ NearIdle /\ TypesIdle /\ ListIdle /\ DistIdle /\ CapsIdle

Init == InitBase /\ PureIdle /\ SelectIdle

SpecGeo == Init /\ [][NextGeo]_vars

SpecCity == Init /\ [][NextCity]_vars

SpecFly == Init /\ [][NextFly]_vars

SpecSearch == Init /\ [][NextSearch]_vars

\* timers fire, started evaluations run and requests are answered
SearchFairness ==
  /\ WF_vars(Tick)
  /\ WF_vars(PerformSearch)
  /\ WF_vars(\E i \in 1..MaxEvals : EvalResumes(i))
  /\ WF_vars(\E r \in 1..MaxRuns : GeocodeCitiesReturns(r))

SpecSearchLive == Init /\ [][NextSearch]_vars /\ SearchFairness

SpecPage == Init /\ [][NextPage]_vars

SpecFlat == Init /\ [][NextFlat]_vars

SpecNav == Init /\ [][NextNav]_vars

\* each function's arguments are drawn while the rest of the model stays idle
StartOrder == InitBase /\ CapsIdle /\ DistIdle /\ ListIdle /\ TypesIdle /\ SelectIdle /\ FuzzyIdle /\ NearIdle /\ InitOrder

SpecOrder == StartOrder /\ [][NextOrder]_vars

StartSelect == InitBase /\ PureIdle /\ InitSelect

SpecSelect == StartSelect /\ [][NextSelect]_vars

StartFuzzy == InitBase /\ CapsIdle /\ DistIdle /\ ListIdle /\ TypesIdle /\ SelectIdle /\ OrderIdle /\ NearIdle /\ InitFuzzy

SpecFuzzy == StartFuzzy /\ [][NextFuzzy]_vars

StartNear == InitBase /\ CapsIdle /\ DistIdle /\ ListIdle /\ TypesIdle /\ SelectIdle /\ OrderIdle /\ FuzzyIdle /\ InitNear

SpecNear == StartNear /\ [][NextNear]_vars

SpecImport == Init /\ [][NextImport]_vars

StartTypes ==
  InitBase /\ CapsIdle /\ DistIdle /\ ListIdle /\ SelectIdle /\ OrderIdle /\ FuzzyIdle /\ NearIdle /\ InitTypes

SpecTypes == StartTypes /\ [][NextTypes]_vars

StartList ==
  InitBase /\ CapsIdle /\ DistIdle /\ SelectIdle /\ OrderIdle /\ FuzzyIdle /\ NearIdle /\ TypesIdle /\ InitList

SpecList == StartList /\ [][NextList]_vars

StartDist ==
  InitBase /\ CapsIdle /\ SelectIdle /\ OrderIdle /\ FuzzyIdle /\ NearIdle /\ TypesIdle /\ ListIdle
    /\ InitDist

SpecDist == StartDist /\ [][NextDist]_vars


SpecUpload == Init /\ [][NextUpload]_vars


StartCaps ==
  InitBase /\ SelectIdle /\ OrderIdle /\ FuzzyIdle /\ NearIdle /\ TypesIdle /\ ListIdle
    /\ DistIdle /\ InitCaps

SpecCaps == StartCaps /\ [][NextCaps]_vars


SpecMarkers == Init /\ [][NextMarkers]_vars

(***************************************************************************)
(* Claims on the cached resolver (SpecGeo)                                 *)
(***************************************************************************)
Started(i) == calls[i].pc # "idle"

Done(i) == calls[i].pc = "done"

C7_MissIsCached ==
  \A i \in 1..MaxCalls :
    (Started(i) /\ calls[i].prior.last = "notfound" /\ calls[i].prior.loc = Null) =>
      calls[i].fetches = 0

\* C8: a lookup of the identical query after a resolution that failed the
\* country-restricted search and succeeded globally returns that global result
\* and causes no request, hence no restricted search.
C8_WidenedResultIsCached ==
  \A i \in 1..MaxCalls :
    (Done(i) /\ calls[i].prior.via = "global" /\ calls[i].prior.loc.city = calls[i].city) =>
      /\ calls[i].ret = calls[i].prior.loc
      /\ calls[i].fetches = 0
      /\ calls[i].nRestricted = 0

C8_Witness ==
  \E i, j \in 1..MaxCalls :
    /\ Done(i) /\ Done(j)
    /\ calls[j].ended = "found" /\ calls[j].nRestricted = 1 /\ calls[j].nGlobal = 1
    /\ calls[i].city = calls[j].city
    /\ calls[i].prior.via = "global"
    /\ calls[i].ended = "cached"
    /\ calls[i].ret = calls[j].ret

\* C9: a resolution that ended in a network or provider error and one that
\* ended with no results never return the same value.
C9_ErrorDistinctFromNotFound ==
  \A i, j \in 1..MaxCalls :
    (Done(i) /\ Done(j) /\ calls[i].ended = "error" /\ calls[j].ended = "notfound") =>
      calls[i].ret # calls[j].ret

(***************************************************************************)
(* Claims on the map's geocodeCity chain (SpecCity)                        *)
(***************************************************************************)
\* C6: for one place query at most one global-scope provider search is made,
\* counting the direct call, the route fallback and the route's own retry.
C6_AtMostOneGlobalSearch ==
  \A i \in 1..MaxCityCalls : cityCalls[i].nGlobal <= 1

(***************************************************************************)
(* Claims on geocodeAndFlyToCity with the lastGeocodedCity guard (SpecFly) *)
(***************************************************************************)
\* C5: an attempt for a name whose previous attempt ended in a network or
\* provider error issues a fresh request: it is not skipped.
C5_FailureIsNotRemembered ==
  lastInvocation.prior = "error" => lastInvocation.action = "requested"

(***************************************************************************)
(* Claims on the search session (SpecSearch)                               *)
(***************************************************************************)
\* C1: a performSearch that was still awaiting its geocode response when the
\* evaluation of a newer, different query started leaves results alone when it
\* continues: its result is discarded.
C1_StaleResultIsDiscarded ==
  [][\A i \in 1..MaxEvals :
       (evals[i].pc = "await" /\ evals[i].superseded /\ evals'[i].pc = "idle")
         => results' = results]_vars

\* C2: when a change of the input text comes less than the debounce interval
\* after the previous one, at most one evaluation runs after it.
C2_OneEvaluationAfterQuickKeystroke == quick => evalsSinceKey <= 1

\* C10: the continuation of a performSearch whose session was closed while it
\* awaited its response changes neither results, selectedIndex nor activeSection.
C10_ClosedSessionIgnoresResponse ==
  [][\A i \in 1..MaxEvals :
       (evals[i].pc = "await" /\ evals[i].closed /\ evals'[i].pc = "idle")
         => UNCHANGED <<results, selectedIndex, activeSection>>]_vars

(***************************************************************************)
(* Claims on the home page's contact list (SpecPage)                       *)
(***************************************************************************)
\* C3: whenever the list view is shown, the ordered contact list holds each
\* contact of the current contacts exactly once and no other contact.
C3_OrderedListIsLossless ==
  ~loading =>
    LET ordered == getOrderedContacts
    IN  /\ Len(ordered) = Len(contacts)
        /\ \A i \in 1..Len(contacts) :
             Cardinality({j \in 1..Len(ordered) : ordered[j] = contacts[i]}) = 1
        /\ \A j \in 1..Len(ordered) : \E i \in 1..Len(contacts) : contacts[i] = ordered[j]

(***************************************************************************)
(* C11: opening the search session with the hotkey resets the whole        *)
(* session state: right after the hotkey handler and the effects it        *)
(* triggers, the query is empty, every result section is empty, the stored *)
(* item count is zero and the cursor is at its initial position.           *)
(***************************************************************************)
C11_HotkeyResetsSession ==
  [][FlatHotkey =>
       /\ flatTerm' = Empty
       /\ flatResults' = FlatEmptyResults
       /\ totalItems' = 0
       /\ selectedItemIndex' = 0]_vars

(***************************************************************************)
(* C12: a selection callback is only ever invoked with an item of the      *)
(* results on display (Enter and a click pass the item under the cursor),  *)
(* and closing by Escape or an outside click invokes none.                 *)
(***************************************************************************)
C12_SelectionIsADisplayedItem ==
  flatSelected.kind # "none" => flatSelected.defined

(***************************************************************************)
(* C13: the arrow keys move one cursor across the sections Contacts,       *)
(* Cities, States.  ArrowDown at the last item of a section moves to the   *)
(* first item of the next non-empty section, ArrowUp at the first item of  *)
(* a section moves to the last item of the previous non-empty section, and *)
(* once an arrow key was pressed with results present, the cursor          *)
(* designates an existing item of a non-empty section.                     *)
(***************************************************************************)
NavPresent(res) == \E section \in NavSections : NavItems(res, section) # <<>>

NavCursorValid(res, section, idx) == idx >= 0 /\ idx < Len(NavItems(res, section))

\* the next and the previous non-empty section, or "none"
NavNextSection(res, section) ==
  IF section = "contacts" /\ res.cities # <<>> THEN "cities"
  ELSE IF section # "states" /\ res.states # <<>> THEN "states"
  ELSE "none"

NavPrevSection(res, section) ==
  IF section = "states" /\ res.cities # <<>> THEN "cities"
  ELSE IF section # "contacts" /\ res.contacts # <<>> THEN "contacts"
  ELSE "none"

C13_ArrowKeysMoveOneCursor ==
  [][/\ (NavArrowDown /\ NavCursorValid(navResults, navSection, navIndex)
           /\ navIndex = Len(NavItems(navResults, navSection)) - 1
           /\ NavNextSection(navResults, navSection) # "none")
          => (navSection' = NavNextSection(navResults, navSection) /\ navIndex' = 0)
     /\ (NavArrowUp /\ NavCursorValid(navResults, navSection, navIndex)
           /\ navIndex = 0
           /\ NavPrevSection(navResults, navSection) # "none")
          => /\ navSection' = NavPrevSection(navResults, navSection)
             /\ navIndex' = Len(NavItems(navResults, navSection')) - 1
     /\ ((NavArrowDown \/ NavArrowUp) /\ NavPresent(navResults))
          => NavCursorValid(navResults', navSection', navIndex')]_vars

(***************************************************************************)
(* C14: when the geocoding call of an evaluation fails (the request is     *)
(* rejected or answered with an error status), the evaluation completes    *)
(* and the results on display become exactly the local matches for the     *)
(* current query.                                                          *)
(***************************************************************************)
\* lines 119-123 and 133-212 with no city to search around: the direct
\* matches of the input text, none for a blank text
LocalMatches(text) ==
  IF Trim(text) = Empty THEN EmptyResults
  ELSE SearchResults(QueryTerm(text), Null, <<>>)

GeocodingFailed(resp) == resp.threw \/ ~resp.ok

C14_FailedGeocodingShowsLocalMatches ==
  [][\A i \in 1..MaxEvals, resp \in Answers :
       (EvalReturns(i, resp) /\ GeocodingFailed(resp))
         => /\ evals'[i].pc = "idle"
            /\ ~isLoading'
            /\ results'.contacts = LocalMatches(searchTerm).contacts
            /\ results'.cities = LocalMatches(searchTerm).cities]_vars

(***************************************************************************)
(* C15: after every bounds-settled event (the map's load, a move end, a    *)
(* zoom end) the visible set is exactly the contacts that have both a      *)
(* latitude and a longitude and lie within the viewport rectangle, the     *)
(* bounds included; a contact with only one coordinate set is not in the   *)
(* visible set and gets no marker.                                         *)
(***************************************************************************)
HasBothCoordinates(contact) == contact.latitude # 0 /\ contact.longitude # 0

WithinViewport(cs, bounds) ==
  LET within(contact) ==
        /\ HasBothCoordinates(contact)
        /\ bounds.sw.lng <= contact.longitude /\ contact.longitude <= bounds.ne.lng
        /\ bounds.sw.lat <= contact.latitude /\ contact.latitude <= bounds.ne.lat
  IN  SelectSeq(cs, within)

C15_VisibleSetIsTheViewportFilter ==
  [][\A bounds \in Viewports :
       (MapLoaded(bounds) \/ ViewportChange(bounds))
         => /\ visibleContacts' = WithinViewport(contacts, bounds)
            /\ \A m \in 1..Len(mapLive'.contacts) :
                 HasBothCoordinates(mapLive'.contacts[m])]_vars

(***************************************************************************)
(* C16: when at least one contact is visible, the ordered contact list     *)
(* starts with the visible contacts in the order the map reported them,    *)
(* followed by all remaining contacts in their original relative order.    *)
(***************************************************************************)
\* the contacts of cs that are not among the visible ones, in the order of cs
Remaining(cs, visible) ==
  LET hidden(c) == \A i \in 1..Len(visible) : visible[i].id # c.id
  IN  SelectSeq(cs, hidden)

VisibleThenRemaining(cs, visible) == visible \o Remaining(cs, visible)

\* the statement as made: it is violated by the sidebar's comparator
C16_VisibleFirstThenOriginalOrder ==
  Len(orderVisible) > 0 =>
    /\ orderedFirst # Null
         => orderedFirst.value = VisibleThenRemaining(orderContacts, orderVisible)
    /\ orderedSecond # Null
         => orderedSecond.value = VisibleThenRemaining(orderContacts, orderVisible)

\* C16 as amended: getOrderedContacts keeps the remaining contacts in their
\* original relative order; the sidebar's comparator puts those whose city
\* or state contains the active place before the others, each group in its
\* original relative order (which is the original order when no place is active).
C16_VisibleFirstThenRemaining ==
  Len(orderVisible) > 0 =>
    LET rest == Remaining(orderContacts, orderVisible)
        relevant(c) == RelevantToCity(c, orderCity)
        other(c) == ~RelevantToCity(c, orderCity)
    IN  /\ orderedFirst # Null => orderedFirst.value = orderVisible \o rest
        /\ orderedSecond # Null
             => orderedSecond.value =
                  orderVisible \o SelectSeq(rest, relevant) \o SelectSeq(rest, other)

C16_Witness ==
  /\ Len(orderVisible) > 0
  /\ orderCity # Empty
  /\ orderedFirst # Null
  /\ orderedSecond # Null
  /\ orderedSecond.value # orderedFirst.value

(***************************************************************************)
(* C17: when no contact is visible and a place is active, the ordered      *)
(* contact list holds the contacts whose city equals the place name        *)
(* (case-insensitively) first, then those whose city contains it, then the *)
(* others, and within each of the three groups the contacts are in         *)
(* alphabetical order of their city.                                       *)
(***************************************************************************)
\* 0: the city is the place; 1: the city contains the place; 2: neither
PlaceTier(contact, city) ==
  IF ToLower(contact.mailing_city) = ToLower(city) THEN 0
  ELSE IF Includes(ToLower(contact.mailing_city), ToLower(city)) THEN 1
  ELSE 2

IsPermutation(a, b) ==
  /\ Len(a) = Len(b)
  /\ \A i \in 1..Len(b) : Cardinality({j \in 1..Len(a) : a[j] = b[i]}) = 1

C17_FallbackOrdersByPlaceThenCity ==
  (Len(orderVisible) = 0 /\ orderCity # Empty /\ orderedFirst # Null) =>
    LET list == orderedFirst.value
    IN  /\ IsPermutation(list, orderContacts)
        /\ \A i, j \in 1..Len(list) :
             i < j =>
               /\ PlaceTier(list[i], orderCity) <= PlaceTier(list[j], orderCity)
               /\ PlaceTier(list[i], orderCity) = PlaceTier(list[j], orderCity)
                    => ~StrLess(ToLower(list[j].mailing_city),
                                ToLower(list[i].mailing_city))

\* all three groups are present and the list had to be rearranged
C17_Witness ==
  /\ Len(orderVisible) = 0
  /\ orderCity # Empty
  /\ orderedFirst # Null
  /\ orderedFirst.value # orderContacts
  /\ \A t \in 0..2 :
       \E i \in 1..Len(orderContacts) : PlaceTier(orderContacts[i], orderCity) = t

(***************************************************************************)
(* C18: only one entity is highlighted at a time: selecting a place resets *)
(* the active contact and selecting a contact resets the active place, so  *)
(* the active contact and the active place are never both set.             *)
(***************************************************************************)
C18_OneHighlightedEntity == ~(selectedContact # Null /\ chosenCity # Empty)

(***************************************************************************)
(* C19: fuzzyMatch(text, query) is case-insensitive and returns true       *)
(* exactly when both arguments are non-empty and the characters of query   *)
(* occur in text in the same relative order; it returns false when a       *)
(* character of query does not occur in text and when an argument is empty.*)
(***************************************************************************)
SameLetter(a, b) == LowerChar[a] = LowerChar[b]

\* the characters of q occur in t in the same relative order, whatever their case
OccursInOrder(q, t) ==
  \E at \in [1..Len(q) -> 1..Len(t)] :
    /\ \A i, j \in 1..Len(q) : i < j => at[i] < at[j]
    /\ \A i \in 1..Len(q) : SameLetter(t[at[i]], q[i])

C19_FuzzyMatchIsSubsequence ==
  fuzzyResult # Null =>
    /\ fuzzyResult.value
         = (fuzzyText # Empty /\ fuzzyQuery # Empty /\ OccursInOrder(fuzzyQuery, fuzzyText))
    /\ (fuzzyText = Empty \/ fuzzyQuery = Empty) => ~fuzzyResult.value
    /\ (\E i \in 1..Len(fuzzyQuery) :
          \A j \in 1..Len(fuzzyText) : ~SameLetter(fuzzyText[j], fuzzyQuery[i]))
         => ~fuzzyResult.value

\* a match of letters that are apart in the text and differ in case
C19_Witness ==
  /\ fuzzyResult = Some(TRUE)
  /\ ~Includes(ToLower(fuzzyText), ToLower(fuzzyQuery))
  /\ \E i \in 1..Len(fuzzyText) : fuzzyText[i] # LowerChar[fuzzyText[i]]

(***************************************************************************)
(* C20: findNearbyCities returns exactly the names of the candidates whose *)
(* distance from the anchor is at most the radius (60 miles by default): a *)
(* candidate one mile inside the radius is included, one mile outside is   *)
(* excluded, and the anchor, when it is among the candidates, is included. *)
(***************************************************************************)
MilesFromAnchor(location) ==
  calculateDistance(nearTarget.coordinates[2], nearTarget.coordinates[1],
                    location.coordinates[2], location.coordinates[1])

RadiusUsed == IF nearRadius = Null THEN 60 ELSE nearRadius.value

NamesReturned == {nearResult.value[i] : i \in 1..Len(nearResult.value)}

LacksName(row) == row.first = Empty \/ row.last = Empty

C21_NamelessRowIsKeptWithWarning ==
  [][(ParseCompletes /\ \E r \in 1..Len(csvFile) : LacksName(csvFile[r]))
       => /\ parseWarnings' # <<>>
          /\ uploadBody' # Null
          /\ Len(uploadBody'.value) = Len(csvFile)
          /\ \A r \in 1..Len(csvFile) :
               /\ uploadBody'.value[r].first_name # Empty
               /\ uploadBody'.value[r].last_name # Empty]_vars

(***************************************************************************)
(* C22: a query equal to a known state name or abbreviation, compared      *)
(* case-insensitively, is searched with the region place type; every other *)
(* query with the place/locality/region types; the client and the API      *)
(* route classify every query identically.                                 *)
(***************************************************************************)
KnownStateIgnoringCase(query) ==
  \E i \in 1..Len(US_STATES) : ToLower(US_STATES[i]) = ToLower(query)

TypesExpected(query) ==
  IF KnownStateIgnoringCase(query) THEN "region" ELSE "place,locality,region"

C22_StatesAreSearchedAsRegions ==
  /\ clientRequest # Null => clientRequest.value.types = TypesExpected(typesQuery)
  /\ routeRequest # Null => routeRequest.value.types = TypesExpected(typesQuery)
  /\ (clientRequest # Null /\ routeRequest # Null)
       => clientRequest.value.types = routeRequest.value.types

(***************************************************************************)
(* C23: whenever the query is empty or only whitespace, every result       *)
(* section is empty: clearing the input after a non-empty query leaves no  *)
(* results on display and nothing that Enter could activate.               *)
(***************************************************************************)
C23_BlankQueryShowsNothing ==
  Trim(flatTerm) = Empty => (flatResults.contacts = <<>> /\ flatResults.cities = <<>>)

(***************************************************************************)
(* C24: a contact is marked as being in the current map view, and counted  *)
(* in the 'in current map view' figure, exactly when it is a member of the *)
(* visible set last reported by the map; membership is never derived from  *)
(* the contact's position in the list.                                     *)
(***************************************************************************)
ReportedVisible(contact) == \E v \in 1..Len(listVisible) : listVisible[v].id = contact.id

C24_MarkedIffReportedVisible ==
  listMarks # Null =>
    /\ \A i \in 1..Len(listContacts) :
         listMarks.value.marked[i] <=> ReportedVisible(listContacts[i])
    /\ listMarks.value.counts.inViewport = Len(listVisible)

UserActs == HotkeyOpen \/ CloseSession \/ \E text \in InputTexts : Keystroke(text)

SearchQuiet == timeoutId = NoTimer /\ \A i \in 1..MaxEvals : evals[i].pc = "idle"

\* the start-up geocoding, which also re-runs the search effect, is still running
StartupRunning == startupRuns # <<>>

C26_SearchQuiesces == []<><<UserActs>>_vars \/ <>[]SearchQuiet \/ []<>StartupRunning

(***************************************************************************)
(* C27: the start-up geocoding of the known cities terminates: each known  *)
(* city is sent to the geocoder a bounded number of times, including       *)
(* cities for which geocoding finds nothing or fails.                      *)
(***************************************************************************)
C27_StartupGeocodingTerminates == <>[](startupRuns = <<>>)

(***************************************************************************)
(* C28: two resolutions of the same place name that overlap in time (the   *)
(* second starts before the first has stored its result) cause only one    *)
(* network call between them and both return the same location.            *)
(***************************************************************************)
SameName(i, j) == CacheKey(calls[i].city) = CacheKey(calls[j].city)

C28_OverlappingLookupsShareOneRequest ==
  \A i, j \in 1..MaxCalls :
    (i # j /\ calls[i].pc # "idle" /\ calls[j].pc # "idle" /\ SameName(i, j))
      => ~(calls[i].pc = "fetch" /\ calls[j].pc = "fetch")

(***************************************************************************)
(* C29: in the flat-cursor search dialog, in every reachable state the     *)
(* stored item count equals the number of displayed contacts plus the      *)
(* number of displayed places, and the cursor index is an integer that is  *)
(* 0 when the count is 0 and lies in [0, count) otherwise.                 *)
(***************************************************************************)
DisplayedItems == Len(flatResults.contacts) + Len(flatResults.cities)

C29_CountAndCursorAgreeWithResults ==
  /\ totalItems = DisplayedItems
  /\ selectedItemIndex # NaNIndex
  /\ selectedItemIndex \in Nat
  /\ (totalItems = 0 => selectedItemIndex = 0)
  /\ (totalItems > 0 => selectedItemIndex < totalItems)

(***************************************************************************)
(* C30: the contact list held by the page reflects the most recently       *)
(* requested fetch: the response or the delayed retry of a fetch started   *)
(* for an earlier place selection never overwrites the contacts, the error *)
(* or the loading flag established by a fetch started for a later          *)
(* selection.                                                              *)
(***************************************************************************)
\* fetch i was started for a selection that has been replaced since
StartedForEarlierSelection(i) ==
  fetches[i].pc # "idle" /\ fetches[i].city # selectedCity

C30_EarlierFetchNeverOverwrites ==
  [][\A i \in 1..MaxFetches :
       (StartedForEarlierSelection(i) /\ fetches'[i] # fetches[i])
         => UNCHANGED <<contacts, error, loading>>]_vars

(***************************************************************************)
(* C31: loading contacts makes at most three fetch attempts per trigger    *)
(* (the initial one and up to two retries); after the last failed attempt  *)
(* the error is set and the contact list is empty, after a successful      *)
(* attempt the error is cleared, and the loading flag is true whenever an  *)
(* attempt or a scheduled retry is outstanding.  Stated for the step of    *)
(* one attempt: what that attempt's own response leaves behind.            *)
(***************************************************************************)
AttemptEnds(i) == fetches[i].pc = "fetch" /\ fetches'[i].pc # "fetch"

C31_LoadingCoversAttemptsAndRetries ==
  [][\A i \in 1..MaxFetches :
       /\ fetches'[i].retryCount <= 2
       /\ AttemptEnds(i) =>
            \/ fetches'[i].pc = "wait" /\ loading'
            \/ fetches'[i].pc = "idle" /\ ~error'
            \/ fetches'[i].pc = "idle" /\ error' /\ contacts' = <<>>]_vars

(***************************************************************************)
(* C32: during an evaluation the geocoding provider is called only when no *)
(* known city matches the query and the trimmed query has more than 2      *)
(* characters; when a known city matches, that city is the proximity       *)
(* anchor and no external resolution is made for the query.                *)
(***************************************************************************)
KnownCityMatches(text) ==
  \E i \in 1..Len(cities) : Includes(ToLower(cities[i]), Trim(ToLower(text)))

ProviderAsked == \E i \in 1..MaxEvals : evals[i].pc = "idle" /\ evals'[i].pc = "await"

AnchoredAtKnownCity(res, text) ==
  /\ res.searchedCity # Null
  /\ \E i \in 1..Len(cities) :
       /\ res.searchedCity.value = cities[i]
       /\ Includes(ToLower(cities[i]), Trim(ToLower(text)))

C32_ProviderOnlyForUnknownLongQuery ==
  [][/\ ProviderAsked => (~KnownCityMatches(searchTerm) /\ Len(Trim(searchTerm)) > 2)
     /\ (PerformSearch /\ KnownCityMatches(searchTerm)) =>
          (~ProviderAsked /\ AnchoredAtKnownCity(results', searchTerm)
             /\ geocodeCache' = geocodeCache)]_vars

C32_Witness ==
  /\ \E i \in 1..MaxEvals : evals[i].pc = "await" /\ Len(evals[i].term) > 2
  /\ "searchedCity" \in DOMAIN results
  /\ results.searchedCity = Some(Austin)

(***************************************************************************)
(* C33: for every upload request with a non-empty contact list, each       *)
(* submitted contact is counted exactly once: results.successful +         *)
(* results.failed equals the number of contacts submitted, whatever mix of *)
(* geocoding outcomes, insert errors and thrown exceptions occurs, and a   *)
(* failure to clear the existing contacts does not stop the processing.    *)
(***************************************************************************)
C33_EveryContactCountedOnce ==
  /\ upPc \in {"geocoding", "upserting"} =>
       upResults.successful + upResults.failed = upIndex - 1
  /\ (upPc = "done" /\ upContacts # <<>>) =>
       /\ upResponse # Null
       /\ upResponse.value.status = 200
       /\ upResponse.value.processed = Len(upContacts)
       /\ upResponse.value.successful + upResponse.value.failed = Len(upContacts)

\* a response to two contacts, one written and one failed, after the
\* clearing of the existing contacts had failed
C33_Witness ==
  /\ upPc = "done"
  /\ Len(upContacts) = 2
  /\ upResponse # Null
  /\ upResponse.value.successful = 1
  /\ upResponse.value.failed = 1
  /\ upResponse.value.errors = 2

(***************************************************************************)
(* C34: every contact written by the upload route has either both latitude *)
(* and longitude set or both null: a contact submitted with at most one    *)
(* coordinate is geocoded and both fields are overwritten together, and a  *)
(* contact submitted with both coordinates keeps them unchanged.           *)
(***************************************************************************)
SubmittedWithBoth(contact) == contact.latitude # Null /\ contact.longitude # Null

C34_CoordinatesBothOrNeither ==
  [][/\ \A r \in 1..Len(upTable') :
          (upTable'[r].latitude = Null) <=> (upTable'[r].longitude = Null)
     /\ \A i \in 1..Len(upContacts) :
          (upPc # "done" /\ SubmittedWithBoth(upContacts[i])) =>
            /\ upContacts'[i].latitude = upContacts[i].latitude
            /\ upContacts'[i].longitude = upContacts[i].longitude]_vars

(***************************************************************************)
(* C35: after every evaluation the result sections respect the fixed caps  *)
(* of the implementation (at most 5 contacts, 3 cities and 3 states in the *)
(* fuzzy-match search; at most 10 contacts and 6 cities in the proximity   *)
(* search; at most 5 contacts and 3 places in the flat-cursor search), and *)
(* no section lists the same contact, city or state twice.                 *)
(***************************************************************************)
NoRepeats(section) ==
  \A i, j \in 1..Len(section) : section[i] = section[j] => i = j

Capped(section, cap) == Len(section) <= cap /\ NoRepeats(section)

PlaceMarkersOnMap ==
  {i \in 1..Len(mkTracked) : mkTracked[i].kind = "city" /\ mkTracked[i].id \in mkOnMap}

C36_AtMostOnePlaceMarker ==
  /\ Cardinality(PlaceMarkersOnMap) <= 1
  /\ Cardinality(mkOnMap) <= MarkedContacts + 1
  /\ mkOnMap \subseteq TrackedIds(mkTracked)

\* a place marker stands on a loaded map next to the contact markers, for a
\* place that is no longer the selected one: its resolution returned after
\* the later selection was made
C36_Witness ==
  /\ mkMap = "loaded"
  /\ \A i \in 1..MaxFlights : mkFlights[i].pc = "idle"
  /\ Cardinality(PlaceMarkersOnMap) = 1
  /\ Cardinality(mkOnMap) = MarkedContacts + 1
  /\ \E i \in PlaceMarkersOnMap : mkTracked[i].city # mkCity

(***************************************************************************)
(* C37: the geocoding indicator tracks the requests: isGeocoding is true   *)
(* exactly while at least one geocoding attempt is in flight, and once     *)
(* every attempt has finished (with a result, with no result or with an    *)
(* error) isGeocoding is false and flyingTo is cleared.  The formula       *)
(* states the part about isGeocoding.                                      *)
(***************************************************************************)
AttemptInFlight(i) == cityCalls[i].pc \in {"direct", "route", "routeGlobal"}

C37_IndicatorTracksRequests ==
  isGeocoding <=> \E i \in 1..MaxCityCalls : AttemptInFlight(i)

====
